---------------------------- MODULE Spec2Model ----------------------------
(***************************************************************************)
(* A model of aviation-weather-mcp: the value normalizers, the cloud-layer *)
(* parser, the two flight-category rules, the report mappers, the service  *)
(* calls' handling of the upstream response and the raw-text segmenters.   *)
(*                                                                         *)
(* Numbers are fixed-point: the JavaScript number x is the integer         *)
(* x * Scale.  Strings that the code parses are sequences of one-character *)
(* strings; strings that the code only compares are TLA+ strings.          *)
(***************************************************************************)
EXTENDS Integers, Sequences, FiniteSets, TLC

VARIABLES
    fcArgs,     \* arguments of the last classification: [ceiling, visibility]
    fcCategory, \* what determineFlightCategory(ceiling, visibility) returned
    fcTool,     \* result of the determine-flight-category tool handler
    visRaw,     \* the raw visibility handed to parseVisibility
    visOut,     \* what parseVisibility returned
    data,       \* one structured METAR record of the upstream response
    metar,      \* the MetarData parseMetarResponse built from it
    ceilingUsed, \* the local `ceiling` the mapper classified the record with
    vfrCheck,   \* what checkVfrMinimums reported for it
    text,       \* a raw-text body answered to a bounds query
    segOut,     \* the records a segmenter made of it: [op, records]
    reOut,      \* the records the same segmenter made of one record's raw
    call,       \* the service call in progress: [op, station]
    response,   \* what the upstream answered to its request
    outcome,    \* how the call ended: the records it returned or its error
    handled, \* what the call did with the payload: segmented it as text, mapped it, ...
    raw, \* the raw METAR string handed to the decode-metar tool
    decodeOut, \* what the tool handler returned for it
    request, \* the function issuing an upstream request
    fetchPc, \* where it stands: start, fetching, reading, done
    timer, \* the timeout timer: unset, armed, fired, cleared
    aborted, \* controller.signal.aborted
    elapsed, \* seconds since the request was issued
    caught, \* the error the catch block received
    fetchOut, \* how the request ended
    tool, \* the tool call: its name and the arguments that decide its requests
    toolPc, \* where its handler stands: start, awaitStation, await, done
    calls, \* the service calls of the handler: not made, awaiting, or their end
    awaited, \* the calls the handler is awaiting
    upstreamLog, \* the upstream requests issued, in order
    toolResult, \* what the handler returned
    toolCaught, \* the error its catch block received
    options, \* the options getPireps is called with
    query, \* the query parameters it sends upstream
    item, \* one record of a structured response, of any kind
    mapped, \* how its mapper ended: a record returned, or an exception
    arg, \* the function applied and the argument it is applied to
    returned, \* what the function returned
    transports, \* the session ids that are keys of the session table
    transportState, \* each session's transport: unused, created, connected, closed
    initPc, \* where the handler of each session's initialize request stands
    reply \* the last answer of the HTTP server

classifyVars == <<fcArgs, fcCategory, fcTool>>
normalizeVars == <<visRaw, visOut>>
mapperVars == <<data, metar, ceilingUsed, vfrCheck>>
textVars == <<text, segOut, reOut>>
serviceVars == <<call, response, outcome, handled>>
decodeVars == <<raw, decodeOut>>
fetchVars == <<request, fetchPc, timer, aborted, elapsed, caught, fetchOut>>
toolVars == <<tool, toolPc, calls, awaited, upstreamLog, toolResult, toolCaught>>
pirepVars == <<options, query>>
looseVars == <<item, mapped>>
valueVars == <<arg, returned>>
sessionVars == <<transports, transportState, initPc, reply>>

-----------------------------------------------------------------------------
(* Bounds *)

\* longest string handed to a numeric parser
MaxStrLen == 4
\* ceilings 0 .. 100 * MaxCeilingHundreds + 99 feet
MaxCeilingHundreds == 31
\* visibilities 0 .. MaxVisQuarters / 4 statute miles
MaxVisQuarters == 22
\* most cloud layers in one record
MaxLayers == 2
\* most chunks a raw-text body is put together from
MaxChunks == 5
\* most records in one structured response
MaxRecords == 2

RECURSIVE Pow10(_)
Pow10(k) == IF k = 0 THEN 1 ELSE 10 * Pow10(k - 1)

\* one unit of a JavaScript number: every decimal string of at most MaxStrLen
\* characters has an exact fixed-point image
Scale == Pow10(MaxStrLen - 1)

-----------------------------------------------------------------------------
(* JavaScript values *)

Undef  == [t |-> "undef", n |-> 0, s |-> <<>>]
Null   == [t |-> "null",  n |-> 0, s |-> <<>>]
NaN    == [t |-> "nan",   n |-> 0, s |-> <<>>]
Num(x) == [t |-> "num",   n |-> x, s |-> <<>>]
Str(s) == [t |-> "str",   n |-> 0, s |-> s]
\* a whole number of units
Whole(k) == Num(k * Scale)

\* ToBoolean: undefined, null, NaN, 0 and "" are falsy
Truthy(v) ==
    CASE v.t = "undef" -> FALSE
      [] v.t = "null"  -> FALSE
      [] v.t = "nan"   -> FALSE
      [] v.t = "num"   -> v.n # 0
      [] v.t = "str"   -> v.s # <<>>
      [] OTHER         -> TRUE

\* a || b
OrElse(a, b) == IF Truthy(a) THEN a ELSE b

\* v < k for a whole number k: false for undefined and NaN
Less(v, k) == v.t = "num" /\ v.n < k * Scale
\* a < b between two numbers: false when either is undefined or NaN
LessNum(a, b) == a.t = "num" /\ b.t = "num" /\ a.n < b.n

-----------------------------------------------------------------------------
(* Strings and the numeric parsers *)

DigitChars == <<"0", "1", "2", "3", "4", "5", "6", "7", "8", "9">>
Digits == {DigitChars[i] : i \in 1..10}
DigitVal(c) == (CHOOSE i \in 1..10 : DigitChars[i] = c) - 1
WhiteSpace == {" ", "\t", "\r", "\n"}

StartsWith(s, p) == Len(s) >= Len(p) /\ SubSeq(s, 1, Len(p)) = p
EndsWith(s, p) == Len(s) >= Len(p) /\ SubSeq(s, Len(s) - Len(p) + 1, Len(s)) = p

\* String.prototype.replace(p, ''): removes the first occurrence of p only
RemoveFirst(s, p) ==
    LET at == {i \in 1..(Len(s) - Len(p) + 1) : SubSeq(s, i, i + Len(p) - 1) = p}
    IN IF at = {} THEN s
       ELSE LET i == CHOOSE j \in at : \A k \in at : j <= k
            IN SubSeq(s, 1, i - 1) \o SubSeq(s, i + Len(p), Len(s))

\* number of leading characters of s that belong to set
RECURSIVE PrefixLen(_, _)
PrefixLen(s, set) ==
    IF s # <<>> /\ Head(s) \in set THEN 1 + PrefixLen(Tail(s), set) ELSE 0

\* number of trailing characters of s that belong to set
RECURSIVE SuffixLen(_, _)
SuffixLen(s, set) ==
    IF s # <<>> /\ s[Len(s)] \in set THEN 1 + SuffixLen(SubSeq(s, 1, Len(s) - 1), set) ELSE 0

Drop(s, k) == SubSeq(s, k + 1, Len(s))

\* String.prototype.trim
Trim(s) ==
    LET a == PrefixLen(s, WhiteSpace)
    IN IF a = Len(s) THEN <<>>
       ELSE SubSeq(s, a + 1, Len(s) - SuffixLen(s, WhiteSpace))

\* the value of a string of digits, in whole units
RECURSIVE IntOf(_)
IntOf(ds) ==
    IF ds = <<>> THEN 0 ELSE 10 * IntOf(SubSeq(ds, 1, Len(ds) - 1)) + DigitVal(ds[Len(ds)])

\* the value of the digits after a decimal point, in fixed-point units
RECURSIVE FracOf(_, _)
FracOf(ds, unit) ==
    IF ds = <<>> THEN 0 ELSE DigitVal(Head(ds)) * (unit \div 10) + FracOf(Tail(ds), unit \div 10)

\* parseFloat of a string: leading white space, a sign, digits, a point and
\* digits; NaN when no digit was read.  (Exponents and "Infinity" are not
\* written with the characters the model draws strings from.)
parseFloatStr(s) ==
    LET t    == Drop(s, PrefixLen(s, WhiteSpace))
        neg  == t # <<>> /\ Head(t) = "-"
        u    == IF t # <<>> /\ Head(t) \in {"+", "-"} THEN Tail(t) ELSE t
        k    == PrefixLen(u, Digits)
        r    == Drop(u, k)
        f    == IF r # <<>> /\ Head(r) = "." THEN PrefixLen(Tail(r), Digits) ELSE 0
        mag  == IntOf(SubSeq(u, 1, k)) * Scale + FracOf(SubSeq(r, 2, f + 1), Scale)
    IN IF k = 0 /\ f = 0 THEN NaN ELSE Num(IF neg THEN 0 - mag ELSE mag)

\* parseInt of a string: leading white space, a sign, digits
parseIntStr(s) ==
    LET t    == Drop(s, PrefixLen(s, WhiteSpace))
        neg  == t # <<>> /\ Head(t) = "-"
        u    == IF t # <<>> /\ Head(t) \in {"+", "-"} THEN Tail(t) ELSE t
        k    == PrefixLen(u, Digits)
        mag  == IntOf(SubSeq(u, 1, k)) * Scale
    IN IF k = 0 THEN NaN ELSE Num(IF neg THEN 0 - mag ELSE mag)

\* parseFloat(v): the argument is converted to a string first
parseFloat(v) ==
    CASE v.t = "str" -> parseFloatStr(v.s)
      [] v.t = "num" -> v
      [] OTHER       -> NaN

\* parseInt(v): a number loses its fraction
parseInt(v) ==
    CASE v.t = "str" -> parseIntStr(v.s)
      [] v.t = "num" -> IF v.n >= 0 THEN Num((v.n \div Scale) * Scale)
                        ELSE Num(0 - (((0 - v.n) \div Scale) * Scale))
      [] OTHER       -> NaN

-----------------------------------------------------------------------------
(* ValueNormalizer: parseVisibility *)

parseVisibility(value) ==
    IF ~Truthy(value) THEN Undef
    ELSE IF value.t = "str" /\ EndsWith(value.s, <<"+">>)
    THEN parseFloatStr(RemoveFirst(value.s, <<"+">>))
    ELSE IF value.t = "str" /\ StartsWith(value.s, <<"P">>) /\ EndsWith(value.s, <<"S", "M">>)
    THEN parseFloatStr(RemoveFirst(RemoveFirst(value.s, <<"P">>), <<"S", "M">>))
    ELSE OrElse(parseFloat(value), Undef)

\* the characters raw visibility strings are drawn from
VisChars == {"0", "1", "6", ".", "+", "P", "S", "M", "a"}
VisStrings == UNION {[1..k -> VisChars] : k \in 0..MaxStrLen}
VisInputs ==
    {Undef, Null, Num(0), Num(Scale \div 2), Whole(10)} \cup {Str(s) : s \in VisStrings}

NotRun == [t |-> "notrun", n |-> 0, s |-> <<>>]

ParseVisibility ==
    /\ visOut = NotRun
    /\ visOut' = parseVisibility(visRaw)
    /\ UNCHANGED visRaw

-----------------------------------------------------------------------------
(* Flight categories, best to worst *)

Categories == {"VFR", "MVFR", "IFR", "LIFR"}

Rank(cat) ==
    CASE cat = "VFR"  -> 0
      [] cat = "MVFR" -> 1
      [] cat = "IFR"  -> 2
      [] cat = "LIFR" -> 3

\* a rule with the first threshold compared by <= instead of <
determineFlightCategory_le(ceiling, visibility) ==
    IF (ceiling # Undef /\ ceiling.t = "num" /\ ceiling.n <= 500 * Scale)
         \/ (visibility # Undef /\ Less(visibility, 1))
    THEN "LIFR"
    ELSE IF (ceiling # Undef /\ Less(ceiling, 1000)) \/ (visibility # Undef /\ Less(visibility, 3))
    THEN "IFR"
    ELSE IF (ceiling # Undef /\ Less(ceiling, 3000)) \/ (visibility # Undef /\ Less(visibility, 5))
    THEN "MVFR"
    ELSE "VFR"

\* a rule whose MVFR test forgets the visibility
determineFlightCategory_novis(ceiling, visibility) ==
    IF (ceiling # Undef /\ Less(ceiling, 500)) \/ (visibility # Undef /\ Less(visibility, 1))
    THEN "LIFR"
    ELSE IF (ceiling # Undef /\ Less(ceiling, 1000)) \/ (visibility # Undef /\ Less(visibility, 3))
    THEN "IFR"
    ELSE IF ceiling # Undef /\ Less(ceiling, 3000)
    THEN "MVFR"
    ELSE "VFR"

\* tools/analysis: determineFlightCategory(ceiling?, visibility?)
determineFlightCategory(ceiling, visibility) ==
    IF (ceiling # Undef /\ Less(ceiling, 500)) \/ (visibility # Undef /\ Less(visibility, 1))
    THEN "LIFR"
    ELSE IF (ceiling # Undef /\ Less(ceiling, 1000)) \/ (visibility # Undef /\ Less(visibility, 3))
    THEN "IFR"
    ELSE IF (ceiling # Undef /\ Less(ceiling, 3000)) \/ (visibility # Undef /\ Less(visibility, 5))
    THEN "MVFR"
    ELSE "VFR"

\* the rule inlined in AviationWeatherService.determineFlightCategory: each
\* operand is tested for truthiness, not for being defined
serviceCategoryRule(ceiling, visibility) ==
    IF (Truthy(ceiling) /\ Less(ceiling, 500)) \/ (Truthy(visibility) /\ Less(visibility, 1))
    THEN "LIFR"
    ELSE IF (Truthy(ceiling) /\ Less(ceiling, 1000)) \/ (Truthy(visibility) /\ Less(visibility, 3))
    THEN "IFR"
    ELSE IF (Truthy(ceiling) /\ Less(ceiling, 3000)) \/ (Truthy(visibility) /\ Less(visibility, 5))
    THEN "MVFR"
    ELSE "VFR"

-----------------------------------------------------------------------------
(* The determine-flight-category tool, called without a station *)

\* ceilings in feet: both ends of every hundred, and a high one
CeilingFeet ==
    {100 * k + d : k \in 0..MaxCeilingHundreds, d \in {0, 99}} \cup {20000}
\* visibilities in statute miles: every quarter mile, 0.99 and 10
VisibilityUnits ==
    {(Scale \div 4) * k : k \in 0..MaxVisQuarters}
        \cup {Scale - Scale \div 100, 10 * Scale}

CeilingArgs == {Undef} \cup {Whole(c) : c \in CeilingFeet}
VisibilityArgs == {Undef} \cup {Num(v) : v \in VisibilityUnits}

NoResult == [isError |-> FALSE, category |-> "none"]

\* the handler's else-if chain with `station` absent
determineFlightCategoryTool(ceiling, visibility) ==
    IF ceiling # Undef \/ visibility # Undef
    THEN [isError |-> FALSE, category |-> determineFlightCategory(ceiling, visibility)]
    ELSE [isError |-> TRUE, category |-> "none"]

\* the helper applied to the ceiling and the visibility
Classify ==
    /\ fcCategory = "none"
    /\ fcCategory' = determineFlightCategory(fcArgs.ceiling, fcArgs.visibility)
    /\ UNCHANGED <<fcArgs, fcTool>>

\* the tool called with the same arguments
CallTool ==
    /\ fcTool = NoResult
    /\ fcTool' = determineFlightCategoryTool(fcArgs.ceiling, fcArgs.visibility)
    /\ UNCHANGED <<fcArgs, fcCategory>>

-----------------------------------------------------------------------------
(* CloudLayerParser and the observation mapper *)

\* parseClouds: one CloudLayer per raw entry.  A cover code that is missing
\* is the empty string here, falsy like undefined.
parseClouds(clouds) ==
    [i \in 1..Len(clouds) |->
        [type     |-> IF clouds[i].cover # "" THEN clouds[i].cover
                      ELSE IF clouds[i].skyCover # "" THEN clouds[i].skyCover
                      ELSE "CLR",
         altitude |-> IF Truthy(clouds[i].base) THEN parseInt(clouds[i].base) ELSE Undef]]

\* the loop of AviationWeatherService.determineFlightCategory and of
\* checkVfrMinimums over layers[1..k]: the ceiling after k layers
RECURSIVE lowestCeiling(_, _)
lowestCeiling(layers, k) ==
    IF k = 0 THEN Undef
    ELSE LET ceiling == lowestCeiling(layers, k - 1)
             cloud   == layers[k]
         IN IF (cloud.type = "BKN" \/ cloud.type = "OVC") /\ Truthy(cloud.altitude)
                /\ (~Truthy(ceiling) \/ LessNum(cloud.altitude, ceiling))
            THEN cloud.altitude
            ELSE ceiling

\* an array field of a record: absent, or present with its items
NoArray == [present |-> FALSE, items |-> <<>>]
Array(items) == [present |-> TRUE, items |-> items]
\* a || b || [] on array fields: an array, even an empty one, is truthy
FirstArray(a, b) == IF a.present THEN a.items ELSE IF b.present THEN b.items ELSE <<>>

\* the ceiling AviationWeatherService.determineFlightCategory computes: from
\* data.clouds || []
serviceCeiling(d) ==
    LET clouds == parseClouds(FirstArray(d.clouds, NoArray))
    IN lowestCeiling(clouds, Len(clouds))

\* AviationWeatherService.determineFlightCategory(data)
serviceDetermineFlightCategory(d) ==
    serviceCategoryRule(serviceCeiling(d), parseVisibility(d.visib))

\* parseMetarResponse(data): the fields the classification depends on
parseMetarResponse(d) ==
    [station        |-> d.icaoId,
     visibility     |-> parseVisibility(d.visib),
     clouds         |-> parseClouds(FirstArray(d.clouds, d.skyCondition)),
     flightCategory |-> serviceDetermineFlightCategory(d)]

\* checkVfrMinimums(metar, minCeiling, minVisibility)
checkVfrMinimums(m, minCeiling, minVisibility) ==
    LET ceiling == lowestCeiling(m.clouds, Len(m.clouds))
        issues  == (IF Truthy(ceiling) /\ LessNum(ceiling, minCeiling)
                    THEN <<"ceiling">> ELSE <<>>)
                   \o (IF Truthy(m.visibility) /\ LessNum(m.visibility, minVisibility)
                       THEN <<"visibility">> ELSE <<>>)
    IN [meets |-> issues = <<>>, ceiling |-> ceiling, issues |-> issues,
        minCeiling |-> minCeiling, minVisibility |-> minVisibility]


\* raw cover codes and raw base values of the cloud entries
Covers == {"FEW", "SCT", "BKN", "OVC", "CLR", "SKC"}
Bases == {Undef, Str(<<"0">>), Whole(400), Whole(2000)}
\* the keys the cloud layers arrive under
CloudKeys == {"clouds", "skyCondition"}
\* raw visibilities of the records
RecordVisibs == {Undef, Num(0), Str(<<"0", "+">>), Whole(2), Str(<<"1", "0", "+">>)}
\* the minimums check-vfr-minimums is called with: its defaults, and lower ones
Minimums == {<<3000, 5>>, <<1000, 3>>}

LayerLists == UNION {[1..k -> Covers \X Bases] : k \in 0..MaxLayers}

\* the record that carries the layers under the given key, with the cover
\* under the key that goes with it
Record(visib, key, layers) ==
    LET entries == [i \in 1..Len(layers) |->
                      [cover    |-> IF key = "clouds" THEN layers[i][1] ELSE "",
                       skyCover |-> IF key = "clouds" THEN "" ELSE layers[i][1],
                       base     |-> layers[i][2]]]
    IN [icaoId       |-> "KDEN",
        visib        |-> visib,
        clouds       |-> IF key = "clouds" THEN Array(entries) ELSE NoArray,
        skyCondition |-> IF key = "clouds" THEN NoArray ELSE Array(entries)]

NoMetar == [station |-> "", visibility |-> Undef, clouds |-> <<>>, flightCategory |-> "none"]
NoCheck == [meets |-> FALSE, ceiling |-> Undef, issues |-> <<>>,
            minCeiling |-> Undef, minVisibility |-> Undef]

\* getMetar's data.map(item => this.parseMetarResponse(item)), one item
ParseMetarResponse ==
    /\ metar = NoMetar
    /\ metar' = parseMetarResponse(data)
    /\ ceilingUsed' = serviceCeiling(data)
    /\ UNCHANGED <<data, vfrCheck>>

\* check-vfr-minimums on the mapped observation
CheckVfrMinimums ==
    /\ metar # NoMetar
    /\ vfrCheck = NoCheck
    /\ \E m \in Minimums :
          vfrCheck' = checkVfrMinimums(metar, Whole(m[1]), Whole(m[2]))
    /\ UNCHANGED <<data, metar, ceilingUsed>>

-----------------------------------------------------------------------------
(* RawTextSegmenter: the string branches of getMetarByBounds and getTafByBounds *)

UpperCase == {"A", "B", "C", "D", "E", "F", "G", "H", "I", "J", "K", "L", "M",
              "N", "O", "P", "Q", "R", "S", "T", "U", "V", "W", "X", "Y", "Z"}

\* s.split(c)
RECURSIVE Split(_, _)
Split(s, c) ==
    LET k == PrefixLen(s, {x \in {s[i] : i \in 1..Len(s)} : x # c})
    IN IF k = Len(s) THEN <<s>>
       ELSE <<SubSeq(s, 1, k)>> \o Split(Drop(s, k + 1), c)

\* parts.join(' ')
RECURSIVE Join(_)
Join(parts) ==
    IF parts = <<>> THEN <<>>
    ELSE IF Len(parts) = 1 THEN parts[1]
    ELSE parts[1] \o <<" ">> \o Join(Tail(parts))

\* data.split('\n').filter(line => line.trim())
nonBlankLines(body) == SelectSeq(Split(body, "\n"), LAMBDA line : Trim(line) # <<>>)

AllIn(s, set) == \A i \in 1..Len(s) : s[i] \in set

\* /^[A-Z]{4}$/
IsStation(s) == Len(s) = 4 /\ AllIn(s, UpperCase)

\* a segmenter whose raw text leaves the station token out
metarTextRecord_tail(line) ==
    LET parts == Split(Trim(line), " ")
    IN IF IsStation(parts[1])
       THEN <<[raw |-> Join(Tail(parts)), station |-> parts[1]]>>
       ELSE <<>>

\* the body of getMetarByBounds' loop: the records one line contributes
metarTextRecord(line) ==
    LET parts == Split(Trim(line), " ")
    IN IF IsStation(parts[1])
       THEN <<[raw |-> Trim(line), station |-> parts[1]]>>
       ELSE <<>>

\* getMetarByBounds' loop over the lines
RECURSIVE metarTextRecords(_)
metarTextRecords(lines) ==
    IF lines = <<>> THEN <<>>
    ELSE metarTextRecord(Head(lines)) \o metarTextRecords(Tail(lines))

\* getMetarByBounds on a string payload
segmentMetarText(body) == metarTextRecords(nonBlankLines(body))

\* /^[A-Z]{4}\s+\d{6}Z/
MatchesStationTime(s) ==
    LET w == PrefixLen(Drop(s, 4), WhiteSpace)
        r == Drop(s, 4 + w)
    IN /\ Len(s) >= 4 /\ AllIn(SubSeq(s, 1, 4), UpperCase)
       /\ w >= 1
       /\ Len(r) >= 7 /\ AllIn(SubSeq(r, 1, 6), Digits) /\ r[7] = "Z"

\* the characters (TAF\s+) consumes at the start of s, 0 when it does not match
TafPrefixLen(s) ==
    LET w == PrefixLen(Drop(s, 3), WhiteSpace)
    IN IF StartsWith(s, <<"T", "A", "F">>) /\ w >= 1 THEN 3 + w ELSE 0

\* /^(TAF\s+)?[A-Z]{4}\s+\d{6}Z/
startsNewTaf(line) ==
    \/ (TafPrefixLen(line) > 0 /\ MatchesStationTime(Drop(line, TafPrefixLen(line))))
    \/ MatchesStationTime(line)

\* tafText.match(/^(TAF\s+)?([A-Z]{4})/): the second group, <<>> without a match
tafStationMatch(tafText) ==
    LET p == TafPrefixLen(tafText)
        a == Drop(tafText, p)
    IN IF p > 0 /\ Len(a) >= 4 /\ AllIn(SubSeq(a, 1, 4), UpperCase) THEN SubSeq(a, 1, 4)
       ELSE IF Len(tafText) >= 4 /\ AllIn(SubSeq(tafText, 1, 4), UpperCase)
       THEN SubSeq(tafText, 1, 4)
       ELSE <<>>

\* a flush that keeps the start line only
tafFlush_first(currentTaf) ==
    IF currentTaf = <<>> THEN <<>>
    ELSE LET tafText == currentTaf[1]
         IN IF tafStationMatch(tafText) # <<>>
            THEN <<[raw |-> tafText, station |-> tafStationMatch(tafText)]>>
            ELSE <<>>

\* "process previous TAF": the record the accumulated lines make
tafFlush(currentTaf) ==
    IF currentTaf = <<>> THEN <<>>
    ELSE LET tafText == Join(currentTaf)
         IN IF tafStationMatch(tafText) # <<>>
            THEN <<[raw |-> tafText, station |-> tafStationMatch(tafText)]>>
            ELSE <<>>

\* getTafByBounds' loop after the first k lines: [currentTaf, results]
RECURSIVE tafLoop(_, _)
tafLoop(lines, k) ==
    IF k = 0 THEN [currentTaf |-> <<>>, results |-> <<>>]
    ELSE LET before == tafLoop(lines, k - 1)
             line   == lines[k]
         IN IF startsNewTaf(line)
            THEN [currentTaf |-> <<Trim(line)>>,
                  results    |-> before.results \o tafFlush(before.currentTaf)]
            ELSE IF before.currentTaf # <<>>
            THEN [currentTaf |-> Append(before.currentTaf, Trim(line)),
                  results    |-> before.results]
            ELSE before

\* getTafByBounds on a string payload
segmentTafText(body) ==
    LET lines == nonBlankLines(body)
        end   == tafLoop(lines, Len(lines))
    IN end.results \o tafFlush(end.currentTaf)

\* the pieces raw-text bodies are put together from
TextChunks ==
    { <<"K", "D", "E", "N", " ", "1", "2", "1", "6", "5", "2", "Z">>,
      <<"K", "L", "A", "S">>,
      <<"T", "A", "F">>,
      <<"F", "M">>,
      <<"F", "M", "\n">>,
      <<" ">>,
      <<"\t">>,
      <<"\n">> }

RECURSIVE Concat(_)
Concat(chunks) == IF chunks = <<>> THEN <<>> ELSE Head(chunks) \o Concat(Tail(chunks))

Texts == {Concat(cs) : cs \in UNION {[1..k -> TextChunks] : k \in 0..MaxChunks}}

NoSeg == [op |-> "none", records |-> <<>>]
NoReseg == [of |-> 0, records |-> <<>>]

\* the text branch of getMetarByBounds
SegmentMetars ==
    /\ segOut = NoSeg
    /\ segOut' = [op |-> "metar", records |-> segmentMetarText(text)]
    /\ UNCHANGED <<text, reOut>>

\* the text branch of getTafByBounds
SegmentTafs ==
    /\ segOut = NoSeg
    /\ segOut' = [op |-> "taf", records |-> segmentTafText(text)]
    /\ UNCHANGED <<text, reOut>>

\* the raw text of one of the records, answered as the body of a second query
Resegment ==
    /\ reOut = NoReseg
    /\ \E i \in 1..Len(segOut.records) :
          reOut' = [of |-> i,
                    records |-> IF segOut.op = "metar"
                                THEN segmentMetarText(segOut.records[i].raw)
                                ELSE segmentTafText(segOut.records[i].raw)]
    /\ UNCHANGED <<text, segOut>>

-----------------------------------------------------------------------------
(* The other report mappers, as far as the records below exercise them *)

LowerSeq == <<"a", "b", "c", "d", "e", "f", "g", "h", "i", "j", "k", "l", "m",
              "n", "o", "p", "q", "r", "s", "t", "u", "v", "w", "x", "y", "z">>
UpperSeq == <<"A", "B", "C", "D", "E", "F", "G", "H", "I", "J", "K", "L", "M",
              "N", "O", "P", "Q", "R", "S", "T", "U", "V", "W", "X", "Y", "Z">>

\* s.toUpperCase()
toUpperCase(s) ==
    [i \in 1..Len(s) |->
        IF \E k \in 1..26 : LowerSeq[k] = s[i]
        THEN UpperSeq[CHOOSE k \in 1..26 : LowerSeq[k] = s[i]]
        ELSE s[i]]

\* s.includes(sub)
Includes(s, sub) ==
    \E i \in 1..(Len(s) - Len(sub) + 1) : SubSeq(s, i, i + Len(sub) - 1) = sub

\* a table that tests WIND before WIND and SHEAR
parseHazardType_surface(value) ==
    IF value.t # "str" THEN "TypeError"
    ELSE LET upper == toUpperCase(value.s)
         IN IF Includes(upper, <<"I", "F", "R">>) THEN "IFR"
            ELSE IF Includes(upper, <<"M", "O", "U", "N", "T", "A", "I", "N">>)
                    \/ Includes(upper, <<"M", "T", "N">>) THEN "MOUNTAIN_OBSCURATION"
            ELSE IF Includes(upper, <<"T", "U", "R", "B">>) THEN "TURBULENCE"
            ELSE IF Includes(upper, <<"I", "C", "E">>)
                    \/ Includes(upper, <<"I", "C", "I", "N", "G">>) THEN "ICING"
            ELSE IF Includes(upper, <<"W", "I", "N", "D">>) THEN "STRONG_SURFACE_WINDS"
            ELSE "IFR"

\* parseHazardType(value); a value that is no string has no toUpperCase and
\* the call throws a TypeError
parseHazardType(value) ==
    IF value.t # "str" THEN "TypeError"
    ELSE LET upper == toUpperCase(value.s)
         IN IF Includes(upper, <<"I", "F", "R">>) THEN "IFR"
            ELSE IF Includes(upper, <<"M", "O", "U", "N", "T", "A", "I", "N">>)
                    \/ Includes(upper, <<"M", "T", "N">>) THEN "MOUNTAIN_OBSCURATION"
            ELSE IF Includes(upper, <<"T", "U", "R", "B">>) THEN "TURBULENCE"
            ELSE IF Includes(upper, <<"I", "C", "E">>)
                    \/ Includes(upper, <<"I", "C", "I", "N", "G">>) THEN "ICING"
            ELSE IF Includes(upper, <<"W", "I", "N", "D">>)
                    /\ Includes(upper, <<"S", "H", "E", "A", "R">>) THEN "LOW_LEVEL_WIND_SHEAR"
            ELSE IF Includes(upper, <<"W", "I", "N", "D">>) THEN "STRONG_SURFACE_WINDS"
            ELSE "IFR"

\* parseTafResponse(data) for a record without forecast periods
parseTafResponse(d) ==
    [station |-> d.icaoId, forecasts |-> <<>>]

\* parsePirepResponse(data) for a record without turbulence or icing
parsePirepResponse(d) ==
    [reportType |-> IF d.urgency = "URGENT" THEN "URGENT" ELSE "ROUTINE"]

\* parseAirmetResponse(data)
parseAirmetResponse(d) ==
    [hazardType |-> parseHazardType(OrElse(d.hazard, d.hazardType))]

-----------------------------------------------------------------------------
(* AviationWeatherService: the calls and the upstream's answer *)

StationIds == {"KDEN", "KLAS"}

\* one record of a structured response: the fields the mappers read
UpstreamRecord(id) ==
    [icaoId       |-> id,
     visib        |-> Str(<<"1", "0", "+">>),
     clouds       |-> Array(<<[cover |-> "BKN", skyCover |-> "", base |-> Whole(2000)]>>),
     skyCondition |-> NoArray,
     lat          |-> Undef,
     lon          |-> Undef,
     elev         |-> Undef,
     urgency      |-> IF id = "KDEN" THEN "URGENT" ELSE "",
     hazard       |-> Str(<<"T", "u", "r", "b">>),
     hazardType   |-> Undef]

\* what the body decodes to
JsonArray(ids) == [k |-> "array",  items |-> ids, text |-> <<>>]
JsonObject     == [k |-> "object", items |-> <<>>, text |-> <<>>]
JsonNull       == [k |-> "null",   items |-> <<>>, text |-> <<>>]
JsonString(t)  == [k |-> "string", items |-> <<>>, text |-> t]
\* a body that is no JSON document: response.json() rejects
PlainText(t)   == [k |-> "plain",  items |-> <<>>, text |-> t]

\* raw-text bodies: two observation lines; a forecast with a continuation line
ServiceTexts ==
    { <<"K", "D", "E", "N", " ", "1", "2", "1", "6", "5", "2", "Z", "\n",
        "K", "L", "A", "S", " ", "1", "2", "1", "6", "5", "2", "Z", "\n">>,
      <<"T", "A", "F", " ", "K", "D", "E", "N", " ", "1", "2", "1", "6", "5", "2", "Z", "\n",
        " ", "F", "M", "\n">> }

Bodies ==
    {JsonArray(ids) : ids \in UNION {[1..k -> StationIds] : k \in 0..MaxRecords}}
        \cup {JsonObject, JsonNull}
        \cup {JsonString(t) : t \in ServiceTexts}
        \cup {PlainText(t) : t \in ServiceTexts}

\* response.text(): the characters of the body.  A JSON document that is not
\* a bare line of report text is written with brackets, braces or quotes.
bodyText(body) ==
    CASE body.k = "plain"  -> body.text
      [] body.k = "string" -> <<"\"">> \o body.text \o <<"\"">>
      [] body.k = "array"  -> <<"[">> \o Concat([i \in 1..Len(body.items) |-> <<"{", "}">>]) \o <<"]">>
      [] body.k = "object" -> <<"{", "}">>
      [] body.k = "null"   -> <<"n", "u", "l", "l">>

\* the upstream's answer: no answer (a network error, or the request aborted
\* by the timer), or a status, a content-type header and a body
NoBody == PlainText(<<>>)
Responses ==
    {[net |-> n, httpOk |-> FALSE, contentType |-> "none", body |-> NoBody] :
        n \in {"networkError", "aborted"}}
    \cup [net : {"ok"}, httpOk : BOOLEAN,
          contentType : {"application/json", "text/plain", "none"}, body : Bodies]

Pending == [kind |-> "pending", code |-> "", records |-> <<>>]
Failed(code) == [kind |-> "error", code |-> code, records |-> <<>>]
Returned(records) == [kind |-> "ok", code |-> "", records |-> records]

\* the catch block shared by fetchWithTimeout and the bounds queries
fetchError(resp) == IF resp.net = "aborted" THEN Failed("TIMEOUT") ELSE Failed("FETCH_ERROR")

\* fetchWithTimeout(url): the decoded body, or the structured error
fetchWithTimeout(resp) ==
    IF resp.net # "ok" \/ ~resp.httpOk \/ resp.body.k = "plain"
    THEN fetchError(resp)
    ELSE [kind |-> "data", code |-> "", records |-> <<>>]

\* the mapper each query applies to an item of the array
mapItem(op, d) ==
    CASE op \in {"getMetar", "getMetarByBounds"} -> parseMetarResponse(d)
      [] op \in {"getTaf", "getTafByBounds"}     -> parseTafResponse(d)
      [] op = "getPireps"                        -> parsePirepResponse(d)
      [] op = "getAirmets"                       -> parseAirmetResponse(d)

\* data.map(item => this.parse...Response(item))
MapItems(op, ids) == [i \in 1..Len(ids) |-> mapItem(op, UpstreamRecord(ids[i]))]

\* the segmenter each bounds query applies to a string payload
segmentText(op, body) ==
    IF op = "getMetarByBounds" THEN segmentMetarText(body) ELSE segmentTafText(body)

\* getMetar, getTaf, getPireps, getAirmets after the request: the array check
\* and the map
listQuery(resp, op) ==
    LET got == fetchWithTimeout(resp)
    IN IF got.kind # "data" THEN got
       ELSE IF resp.body.k # "array" THEN Failed("INVALID_RESPONSE")
       ELSE Returned(MapItems(op, resp.body.items))

\* contentType?.includes('json')
declaredJson(resp) == resp.contentType = "application/json"

\* getMetarByBounds and getTafByBounds after the request: the choice of
\* json() or text(), then the string branch, the array branch and `return []`
boundsQuery(resp, op) ==
    IF resp.net # "ok" \/ ~resp.httpOk THEN fetchError(resp)
    ELSE IF declaredJson(resp) /\ resp.body.k = "plain" THEN fetchError(resp)
    ELSE IF ~declaredJson(resp) THEN Returned(segmentText(op, bodyText(resp.body)))
    ELSE IF resp.body.k = "string" THEN Returned(segmentText(op, resp.body.text))
    ELSE IF resp.body.k = "array" THEN Returned(MapItems(op, resp.body.items))
    ELSE Returned(<<>>)

\* the StationInfo getStationInfo builds from one record
stationInfo(d, cleanStation) ==
    [icao      |-> IF d.icaoId # "" THEN d.icaoId ELSE cleanStation,
     latitude  |-> OrElse(parseFloat(d.lat), Undef),
     longitude |-> OrElse(parseFloat(d.lon), Undef),
     elevation |-> IF Truthy(d.elev) THEN parseInt(d.elev) ELSE Undef]

\* getStationInfo(station) after the request
getStationInfo(resp, cleanStation) ==
    LET got == fetchWithTimeout(resp)
    IN IF got.kind # "data" THEN got
       ELSE IF resp.body.k # "array" \/ Len(resp.body.items) = 0
       THEN Failed("STATION_NOT_FOUND")
       ELSE Returned(<<stationInfo(UpstreamRecord(resp.body.items[1]), cleanStation)>>)

ListOps == {"getMetar", "getTaf", "getPireps", "getAirmets"}
BoundsOps == {"getMetarByBounds", "getTafByBounds"}
Calls ==
    [op : ListOps \cup BoundsOps, station : {""}]
        \cup [op : {"getStationInfo"}, station : StationIds]

\* what a station-list query does with the payload
listHandling(resp) ==
    IF fetchWithTimeout(resp).kind # "data" THEN "failed"
    ELSE IF resp.body.k # "array" THEN "rejected"
    ELSE "mapped"

\* what a bounds query does with the payload: `typeof data === 'string'`
\* holds for every body read with text() and for a JSON document that is a
\* string
boundsHandling(resp) ==
    IF resp.net # "ok" \/ ~resp.httpOk THEN "failed"
    ELSE IF declaredJson(resp) /\ resp.body.k = "plain" THEN "failed"
    ELSE IF ~declaredJson(resp) \/ resp.body.k = "string" THEN "segmented"
    ELSE IF resp.body.k = "array" THEN "mapped"
    ELSE "dropped"

Ends(op, result, handling) ==
    /\ call.op = op
    /\ outcome = Pending
    /\ outcome' = result
    /\ handled' = handling
    /\ UNCHANGED <<call, response>>

GetMetar == Ends("getMetar", listQuery(response, "getMetar"), listHandling(response))
GetTaf == Ends("getTaf", listQuery(response, "getTaf"), listHandling(response))
GetPireps == Ends("getPireps", listQuery(response, "getPireps"), listHandling(response))
GetAirmets == Ends("getAirmets", listQuery(response, "getAirmets"), listHandling(response))
GetMetarByBounds ==
    Ends("getMetarByBounds", boundsQuery(response, "getMetarByBounds"), boundsHandling(response))
GetTafByBounds ==
    Ends("getTafByBounds", boundsQuery(response, "getTafByBounds"), boundsHandling(response))
GetStationInfo ==
    Ends("getStationInfo", getStationInfo(response, call.station), listHandling(response))

-----------------------------------------------------------------------------
(* The METAR decoder: decodeMetar and the decode-metar tool *)

\* most tokens in a report put together from arbitrary tokens
MaxTokens == 2

\* raw.trim().split(/\s+/) on a trimmed string: the empty string splits into
\* one empty part
RECURSIVE SplitWS(_)
SplitWS(s) ==
    LET k == PrefixLen(s, {s[i] : i \in 1..Len(s)} \ WhiteSpace)
        rest == Drop(s, k)
    IN IF rest = <<>> THEN <<s>>
       ELSE <<SubSeq(s, 1, k)>> \o SplitWS(Drop(rest, PrefixLen(rest, WhiteSpace)))

\* String.prototype.substring(a, b) for 0 <= a <= b
Substring(s, a, b) ==
    SubSeq(s, (IF a < Len(s) THEN a ELSE Len(s)) + 1, IF b < Len(s) THEN b ELSE Len(s))

\* the decimal text of a natural number
RECURSIVE NatText(_)
NatText(n) ==
    IF n < 10 THEN <<DigitChars[n + 1]>> ELSE NatText(n \div 10) \o <<DigitChars[(n % 10) + 1]>>

\* `${parseInt(s)}`: the text of the number parseInt read, or NaN
IntText(s) ==
    LET v == parseIntStr(s)
    IN IF v.t = "nan" THEN <<"NaN">>
       ELSE IF v.n < 0 THEN <<"-">> \o NatText((0 - v.n) \div Scale)
       ELSE NatText(v.n \div Scale)

\* parts[index] && ...: the part exists and is not the empty string
Present(parts, index) == index <= Len(parts) /\ parts[index] # <<>>

\* s has, somewhere, k digits followed by the characters of tail
DigitsThen(s, k, tail) ==
    \E i \in 1..Len(s) :
        /\ i + k - 1 + Len(tail) <= Len(s)
        /\ AllIn(SubSeq(s, i, i + k - 1), Digits)
        /\ SubSeq(s, i + k, i + k - 1 + Len(tail)) = tail

\* /\d{6}Z/
MatchesTime(s) == DigitsThen(s, 6, <<"Z">>)

\* /\d{3}\d{2}(G\d{2})?KT/
MatchesWind(s) ==
    \/ DigitsThen(s, 5, <<"K", "T">>)
    \/ \E i \in 1..Len(s) :
          /\ i + 9 <= Len(s)
          /\ AllIn(SubSeq(s, i, i + 4), Digits)
          /\ s[i + 5] = "G"
          /\ AllIn(SubSeq(s, i + 6, i + 7), Digits)
          /\ SubSeq(s, i + 8, i + 9) = <<"K", "T">>

\* wind.match(/G(\d{2})/): the two digits after the first G that has them, or
\* the empty string when there is no match
GustOf(s) ==
    LET at == {i \in 1..Len(s) : /\ s[i] = "G" /\ i + 2 <= Len(s)
                                 /\ AllIn(SubSeq(s, i + 1, i + 2), Digits)}
    IN IF at = {} THEN <<>>
       ELSE LET i == CHOOSE j \in at : \A k \in at : j <= k
            IN SubSeq(s, i + 1, i + 2)

\* /^\d+SM$/
MatchesWholeSM(s) ==
    /\ Len(s) >= 3 /\ EndsWith(s, <<"S", "M">>)
    /\ AllIn(SubSeq(s, 1, Len(s) - 2), Digits)

\* /^M?\d+\/\d+SM$/
MatchesFractionSM(s) ==
    LET t == IF s # <<>> /\ Head(s) = "M" THEN Tail(s) ELSE s
        a == PrefixLen(t, Digits)
        r == Drop(t, a)
        b == IF r = <<>> THEN 0 ELSE PrefixLen(Tail(r), Digits)
    IN /\ a >= 1 /\ r # <<>> /\ Head(r) = "/"
       /\ b >= 1 /\ Drop(r, 1 + b) = <<"S", "M">>

MatchesVisibility(s) == MatchesWholeSM(s) \/ MatchesFractionSM(s) \/ s = <<"C", "A", "V", "O", "K">>

\* the sign a weather token starts with, as a number of characters
SignLen(s) == IF s # <<>> /\ Head(s) \in {"+", "-"} THEN 1 ELSE 0

\* /^(\+|-)?(VC)?[A-Z]{2,6}$/
MatchesWeather(s) ==
    LET t == Drop(s, SignLen(s))
    IN \/ Len(t) \in 2..6 /\ AllIn(t, UpperCase)
       \/ /\ StartsWith(t, <<"V", "C">>)
          /\ Len(t) - 2 \in 2..6 /\ AllIn(t, UpperCase)

\* part.replace(/^(\+|-)?VC?/, '')
WeatherCode(s) ==
    LET t == Drop(s, SignLen(s))
    IN IF t # <<>> /\ Head(t) = "V"
       THEN IF Len(t) >= 2 /\ t[2] = "C" THEN Drop(t, 2) ELSE Drop(t, 1)
       ELSE s

\* Object.entries(weatherCodes), in insertion order
weatherCodes ==
    << <<<<"R", "A">>, "Rain">>, <<<<"S", "N">>, "Snow">>, <<<<"B", "R">>, "Mist">>, <<<<"F", "G">>, "Fog">>,
       <<<<"H", "Z">>, "Haze">>, <<<<"T", "S">>, "Thunderstorm">>, <<<<"S", "H">>, "Showers">>,
       <<<<"F", "Z">>, "Freezing">>, <<<<"D", "Z">>, "Drizzle">> >>

\* the words of `description` for one weather token, each followed by a
\* space in the code; description.trim() leaves them separated by one space
RECURSIVE SpacedWords(_)
SpacedWords(words) ==
    IF words = <<>> THEN <<>>
    ELSE IF Len(words) = 1 THEN words
    ELSE <<Head(words), " ">> \o SpacedWords(Tail(words))

weatherDescription(part) ==
    LET code == WeatherCode(part)
        named == SelectSeq(weatherCodes, LAMBDA e : Includes(code, e[1]))
    IN SpacedWords(
         (IF StartsWith(part, <<"+">>) THEN <<"Heavy">> ELSE <<>>)
         \o (IF StartsWith(part, <<"-">>) THEN <<"Light">> ELSE <<>>)
         \o (IF Includes(part, <<"V", "C">>) THEN <<"In vicinity">> ELSE <<>>)
         \o [i \in 1..Len(named) |-> named[i][2]])

cloudTypes == {<<"C", "L", "R">>, <<"S", "K", "C">>, <<"F", "E", "W">>, <<"S", "C", "T">>, <<"B", "K", "N">>, <<"O", "V", "C">>}

\* /^(CLR|SKC|FEW|SCT|BKN|OVC)\d{3}(CB|TCU)?$/
MatchesCloud(s) ==
    /\ Len(s) >= 6
    /\ SubSeq(s, 1, 3) \in cloudTypes
    /\ AllIn(SubSeq(s, 4, 6), Digits)
    /\ Drop(s, 6) \in {<<>>, <<"C", "B">>, <<"T", "C", "U">>}

typeMap(type) ==
    CASE type = <<"C", "L", "R">> -> "Clear"
      [] type = <<"S", "K", "C">> -> "Sky Clear"
      [] type = <<"F", "E", "W">> -> "Few"
      [] type = <<"S", "C", "T">> -> "Scattered"
      [] type = <<"B", "K", "N">> -> "Broken"
      [] type = <<"O", "V", "C">> -> "Overcast"

\* a cloud group whose height is the three digits themselves, not hundreds of feet
cloudDescription_raw(part) ==
    <<typeMap(Substring(part, 0, 3)), " at ">>
    \o NatText(parseIntStr(Substring(part, 3, 6)).n \div Scale)
    \o <<" ft">>
    \o (IF Includes(part, <<"C", "B">>) THEN <<" Cumulonimbus">>
        ELSE IF Includes(part, <<"T", "C", "U">>) THEN <<" Towering Cumulus">> ELSE <<>>)

\* `${typeMap[type]} at ${height} ft${cb}` for a matching cloud group
cloudDescription(part) ==
    <<typeMap(Substring(part, 0, 3)), " at ">>
    \o NatText((parseIntStr(Substring(part, 3, 6)).n \div Scale) * 100)
    \o <<" ft">>
    \o (IF Includes(part, <<"C", "B">>) THEN <<" Cumulonimbus">>
        ELSE IF Includes(part, <<"T", "C", "U">>) THEN <<" Towering Cumulus">> ELSE <<>>)

\* /^M?\d{2}\/M?\d{2}$/
MatchesTemperature(s) ==
    LET a == IF s # <<>> /\ Head(s) = "M" THEN Tail(s) ELSE s
        b == Drop(a, 3)
        c == IF b # <<>> /\ Head(b) = "M" THEN Tail(b) ELSE b
    IN /\ Len(a) >= 3 /\ AllIn(SubSeq(a, 1, 2), Digits) /\ a[3] = "/"
       /\ Len(c) = 2 /\ AllIn(c, Digits)

\* t.replace('M', '-')
MinusForM(t) ==
    LET at == {i \in 1..Len(t) : t[i] = "M"}
    IN IF at = {} THEN t
       ELSE LET i == CHOOSE j \in at : \A k \in at : j <= k
            IN [t EXCEPT ![i] = "-"]

\* /^A\d{4}$/ and /^Q\d{4}$/
MatchesAltimeter(s) ==
    Len(s) = 5 /\ s[1] \in {"A", "Q"} /\ AllIn(Tail(s), Digits)

\* (n / 100).toFixed(2) for a natural number n
Hundredths(n) ==
    NatText(n \div 100) \o <<".", DigitChars[((n % 100) \div 10) + 1], DigitChars[(n % 10) + 1]>>

\* parts.indexOf('RMK'), counted from 1; 0 when there is none
IndexOf(parts, p) ==
    LET at == {i \in 1..Len(parts) : parts[i] = p}
    IN IF at = {} THEN 0 ELSE CHOOSE j \in at : \A k \in at : j <= k

\* texts joined with a separator
RECURSIVE JoinWith(_, _)
JoinWith(texts, sep) ==
    IF texts = <<>> THEN <<>>
    ELSE IF Len(texts) = 1 THEN texts[1]
    ELSE texts[1] \o <<sep>> \o JoinWith(Tail(texts), sep)

\* one line appended to `decoded`: its label and the text after ": "
Line(label, txt) == [label |-> label, text |-> txt]

\* the scan so far: the index of the next part (from 1) and the lines written
Scan(index, lines) == [index |-> index, lines |-> lines]

typeStage(parts, st) ==
    IF st.index <= Len(parts) /\ parts[st.index] \in {<<"M", "E", "T", "A", "R">>, <<"S", "P", "E", "C", "I">>}
    THEN Scan(st.index + 1,
              Append(st.lines,
                     Line("Type", IF parts[st.index] = <<"S", "P", "E", "C", "I">>
                                  THEN <<"Special observation">>
                                  ELSE <<"Routine observation">>)))
    ELSE st

stationStage(parts, st) ==
    IF Present(parts, st.index) /\ IsStation(parts[st.index])
    THEN Scan(st.index + 1, Append(st.lines, Line("Station", parts[st.index])))
    ELSE st

timeStage(parts, st) ==
    IF Present(parts, st.index) /\ MatchesTime(parts[st.index])
    THEN LET time == parts[st.index]
         IN Scan(st.index + 1,
                 Append(st.lines,
                        Line("Observation Time",
                             <<"Day ">> \o Substring(time, 0, 2) \o <<", ">>
                             \o Substring(time, 2, 4) \o <<":">>
                             \o Substring(time, 4, 6) \o <<" UTC">>)))
    ELSE st

windStage(parts, st) ==
    IF Present(parts, st.index) /\ MatchesWind(parts[st.index])
    THEN LET wind == parts[st.index]
             dir == Substring(wind, 0, 3)
             gust == GustOf(wind)
         IN Scan(st.index + 1,
                 Append(st.lines,
                        Line("Wind",
                             (IF dir = <<"V", "R", "B">> THEN <<"Variable">> ELSE dir \o <<"°">>)
                             \o <<" at ">> \o IntText(Substring(wind, 3, 5)) \o <<" knots">>
                             \o (IF gust # <<>>
                                 THEN <<" gusting to ">> \o IntText(gust) \o <<" knots">>
                                 ELSE <<>>))))
    ELSE st

\* the visibility loop: a part that does not match is stepped over
RECURSIVE visibilityStage(_, _)
visibilityStage(parts, st) ==
    IF st.index > Len(parts) THEN st
    ELSE IF MatchesVisibility(parts[st.index])
    THEN Scan(st.index + 1,
              Append(st.lines,
                     Line("Visibility",
                          IF parts[st.index] = <<"C", "A", "V", "O", "K">>
                          THEN <<"Ceiling and Visibility OK (>10SM, no clouds below 5000ft)">>
                          ELSE parts[st.index])))
    ELSE visibilityStage(parts, Scan(st.index + 1, st.lines))

\* the weather loop: [index, the descriptions pushed]
RECURSIVE weatherLoop(_, _, _)
weatherLoop(parts, index, weather) ==
    IF index <= Len(parts) /\ MatchesWeather(parts[index])
    THEN LET description == weatherDescription(parts[index])
         IN weatherLoop(parts, index + 1,
                        IF description # <<>> THEN Append(weather, description) ELSE weather)
    ELSE <<index, weather>>

weatherStage(parts, st) ==
    LET end == weatherLoop(parts, st.index, <<>>)
    IN Scan(end[1],
            IF end[2] # <<>>
            THEN Append(st.lines, Line("Weather", JoinWith(end[2], ", ")))
            ELSE st.lines)

\* the cloud loop: [index, the descriptions pushed]
RECURSIVE cloudLoop(_, _, _)
cloudLoop(parts, index, clouds) ==
    IF index <= Len(parts) /\ MatchesCloud(parts[index])
    THEN cloudLoop(parts, index + 1, Append(clouds, cloudDescription(parts[index])))
    ELSE IF index <= Len(parts) /\ parts[index] \in {<<"C", "L", "R">>, <<"S", "K", "C">>}
    THEN cloudLoop(parts, index + 1, Append(clouds, <<"Clear skies">>))
    ELSE <<index, clouds>>

cloudStage(parts, st) ==
    LET end == cloudLoop(parts, st.index, <<>>)
    IN Scan(end[1],
            IF end[2] # <<>>
            THEN Append(st.lines, Line("Clouds", JoinWith(end[2], ", ")))
            ELSE st.lines)

temperatureStage(parts, st) ==
    IF st.index <= Len(parts) /\ MatchesTemperature(parts[st.index])
    THEN LET temps == Split(parts[st.index], "/")
         IN Scan(st.index + 1,
                 Append(st.lines,
                        Line("Temperature",
                             MinusForM(temps[1]) \o <<"°C, Dewpoint: ">>
                             \o MinusForM(temps[2]) \o <<"°C">>)))
    ELSE st

altimeterStage(parts, st) ==
    IF st.index <= Len(parts) /\ MatchesAltimeter(parts[st.index])
    THEN LET alt == parts[st.index]
             value == parseIntStr(Tail(alt)).n \div Scale
         IN Scan(st.index + 1,
                 Append(st.lines,
                        IF Head(alt) = "A"
                        THEN Line("Altimeter", Hundredths(value) \o <<" inHg">>)
                        ELSE Line("QNH", NatText(value) \o <<" hPa">>)))
    ELSE st

remarksStage(parts, st) ==
    LET rmkIndex == IndexOf(parts, <<"R", "M", "K">>)
    IN IF rmkIndex # 0
       THEN Scan(st.index,
                 Append(st.lines,
                        Line("Remarks", JoinWith(SubSeq(parts, rmkIndex + 1, Len(parts)), " "))))
       ELSE st

\* decodeMetar(raw): the lines written after the heading 'Decoded METAR:'
decodeMetar(rawMetar) ==
    LET parts == SplitWS(Trim(rawMetar))
    IN remarksStage(parts,
       altimeterStage(parts,
       temperatureStage(parts,
       cloudStage(parts,
       weatherStage(parts,
       visibilityStage(parts,
       windStage(parts,
       timeStage(parts,
       stationStage(parts,
       typeStage(parts, Scan(1, <<>>))))))))))).lines

\* the decode-metar tool handler: decodeMetar has no throw statement and
\* applies string methods to strings only, so the catch block is never entered
NotDecoded == [isError |-> FALSE, heading |-> "none", lines |-> <<>>]
decodeMetarTool(rawMetar) ==
    [isError |-> FALSE, heading |-> "Decoded METAR:", lines |-> decodeMetar(rawMetar)]

\* the groups a report is written from, in the order of a report; the empty
\* token stands for a group that is left out
TypeTokens == {<<>>, <<"M", "E", "T", "A", "R">>, <<"S", "P", "E", "C", "I">>}
WindTokens == {<<"2", "7", "0", "1", "5", "G", "2", "5", "K", "T">>, <<"2", "7", "0", "1", "5", "K", "T">>}
VisibilityTokens == {<<>>, <<"1", "0", "S", "M">>, <<"1", "/", "2", "S", "M">>, <<"C", "A", "V", "O", "K">>}
WeatherTokens == {<<>>, <<"-", "R", "A">>}
CloudTokens == {<<>>, <<"F", "E", "W", "0", "5", "0">>, <<"B", "K", "N", "0", "2", "0", "C", "B">>}
TemperatureTokens == {<<>>, <<"2", "2", "/", "1", "0">>, <<"M", "0", "5", "/", "M", "1", "0">>}
AltimeterTokens == {<<>>, <<"A", "2", "9", "9", "2">>, <<"Q", "1", "0", "1", "3">>}
RemarkTokens == {<<>>, <<"R", "M", "K", " ", "A", "O", "2">>}

\* a report with its groups in the order of a report
OrderedReport(type, wind, vis, wx, cloud, temp, alt, rmk) ==
    Join(SelectSeq(<<type, <<"K", "D", "E", "N">>, <<"1", "2", "1", "6", "5", "2", "Z">>, wind, vis, wx, cloud, temp, alt, rmk>>,
                   LAMBDA t : t # <<>>))

OrderedReports ==
    {OrderedReport(g[1], g[2], g[3], g[4], g[5], g[6], g[7], g[8]) :
        g \in TypeTokens \X WindTokens \X VisibilityTokens \X WeatherTokens
              \X CloudTokens \X TemperatureTokens \X AltimeterTokens \X RemarkTokens}

\* reports of any tokens in any order, the empty report among them
LooseTokens ==
    {<<"M", "E", "T", "A", "R">>, <<"K", "D", "E", "N">>, <<"1", "2", "1", "6", "5", "2", "Z">>, <<"V", "R", "B", "0", "5", "K", "T">>, <<"1", "0", "S", "M">>, <<"C", "L", "R">>, <<"+", "V", "C", "T", "S", "R", "A">>,
     <<"O", "V", "C", "0", "0", "8">>, <<"2", "2", "/", "1", "0">>, <<"A", "2", "9", "9", "2">>, <<"R", "M", "K">>}
LooseReports ==
    {Join(ts) : ts \in UNION {[1..k -> LooseTokens] : k \in 0..MaxTokens}}
        \cup {<<" ">>, <<" ">> \o <<"K", "D", "E", "N">> \o <<"\t", " ">> \o <<"1", "0", "S", "M">> \o <<"\n">>}

\* reports whose wind group has the direction VRB, with and without a gust
VariableWindTokens == {<<"V", "R", "B", "0", "5", "K", "T">>, <<"V", "R", "B", "0", "5", "G", "1", "5", "K", "T">>}
VariableWindReports ==
    {OrderedReport(<<>>, w, v, <<>>, c, <<>>, <<>>, <<>>) :
        w \in VariableWindTokens, v \in VisibilityTokens, c \in CloudTokens}

Reports == OrderedReports \cup LooseReports \cup VariableWindReports

DecodeMetarTool ==
    /\ decodeOut = NotDecoded
    /\ decodeOut' = decodeMetarTool(raw)
    /\ UNCHANGED raw

-----------------------------------------------------------------------------
(* One upstream request, step by step: fetchWithTimeout, and the same
   request code written out in getMetarByBounds and getTafByBounds *)

\* REQUEST_TIMEOUT, in milliseconds
REQUEST_TIMEOUT == 10000
\* the longest a request is watched for, in seconds
MaxElapsed == 12

Requests == {"fetchWithTimeout", "getMetarByBounds", "getTafByBounds"}

NoError == [name |-> "none", message |-> ""]
\* what fetch rejects with once controller.abort() was called
AbortError == [name |-> "AbortError", message |-> "This operation was aborted"]
\* what fetch rejects with when the connection fails
NetworkErrors ==
    {[name |-> "TypeError", message |-> "fetch failed"],
     [name |-> "Error", message |-> "getaddrinfo ENOTFOUND aviationweather.gov"]}
\* new Error(`HTTP ${response.status}: ${response.statusText}`)
HttpErrors ==
    {[name |-> "Error", message |-> "HTTP 404: Not Found"],
     [name |-> "Error", message |-> "HTTP 500: Internal Server Error"],
     [name |-> "Error", message |-> "HTTP 429: Too Many Requests"]}
\* what response.json() rejects with on a body that is no JSON document, and
\* what reading the body rejects with when the connection breaks
BodyErrors ==
    {[name |-> "SyntaxError", message |-> "Unexpected token < in JSON at position 0"],
     [name |-> "TypeError", message |-> "terminated"]}

Requesting == [kind |-> "pending", code |-> "", message |-> ""]
Fetched == [kind |-> "ok", code |-> "", message |-> ""]

\* a catch block that wraps every error as FETCH_ERROR
catchBlock_generic(error) ==
    [kind |-> "error", code |-> "FETCH_ERROR", message |-> error.message]

\* the catch block after clearTimeout: the structured error it throws
catchBlock(error) ==
    IF error.name = "AbortError"
    THEN [kind |-> "error", code |-> "TIMEOUT", message |-> "Request timed out"]
    ELSE [kind |-> "error", code |-> "FETCH_ERROR", message |-> error.message]

\* the request is awaiting fetch() or the reading of the body
InFlight == fetchPc \in {"fetching", "reading"}

\* new AbortController(), setTimeout(() => controller.abort(), timeout), fetch(url)
IssueRequest ==
    /\ fetchPc = "start"
    /\ fetchPc' = "fetching"
    /\ timer' = "armed"
    /\ elapsed' = 0
    /\ UNCHANGED <<request, aborted, caught, fetchOut>>

\* fetch resolves with the response headers: clearTimeout, then the status
\* check; a response that is not ok is thrown into the catch block
FetchResolves ==
    /\ fetchPc = "fetching"
    /\ ~aborted
    /\ timer' = "cleared"
    /\ \/ /\ fetchPc' = "reading"
          /\ UNCHANGED <<caught, fetchOut>>
       \/ \E e \in HttpErrors :
             /\ caught' = e
             /\ fetchOut' = catchBlock(e)
             /\ fetchPc' = "done"
    /\ UNCHANGED <<request, aborted, elapsed>>

\* fetch rejects: the catch block
FetchRejects ==
    /\ fetchPc = "fetching"
    /\ ~aborted
    /\ \E e \in NetworkErrors :
          /\ caught' = e
          /\ fetchOut' = catchBlock(e)
    /\ timer' = "cleared"
    /\ fetchPc' = "done"
    /\ UNCHANGED <<request, aborted, elapsed>>

\* the timer's callback, when the timeout has elapsed: controller.abort()
TimerFires ==
    /\ timer = "armed"
    /\ elapsed * 1000 >= REQUEST_TIMEOUT
    /\ timer' = "fired"
    /\ aborted' = TRUE
    /\ UNCHANGED <<request, fetchPc, elapsed, caught, fetchOut>>

\* the pending await rejects with the abort: the catch block
AbortRejects ==
    /\ InFlight
    /\ aborted
    /\ caught' = AbortError
    /\ fetchOut' = catchBlock(AbortError)
    /\ timer' = "cleared"
    /\ fetchPc' = "done"
    /\ UNCHANGED <<request, aborted, elapsed>>

\* response.json() or response.text() resolves: the call goes on to return
BodyResolves ==
    /\ fetchPc = "reading"
    /\ ~aborted
    /\ fetchOut' = Fetched
    /\ fetchPc' = "done"
    /\ UNCHANGED <<request, timer, aborted, elapsed, caught>>

\* reading the body rejects: the catch block
BodyRejects ==
    /\ fetchPc = "reading"
    /\ ~aborted
    /\ \E e \in BodyErrors :
          /\ caught' = e
          /\ fetchOut' = catchBlock(e)
    /\ timer' = "cleared"
    /\ fetchPc' = "done"
    /\ UNCHANGED <<request, aborted, elapsed>>

\* a second passes while the upstream has not answered; an armed timer fires
\* when its time has come, before more time passes
Tick ==
    /\ InFlight
    /\ ~aborted
    /\ elapsed < MaxElapsed
    /\ ~(timer = "armed" /\ elapsed * 1000 >= REQUEST_TIMEOUT)
    /\ elapsed' = elapsed + 1
    /\ UNCHANGED <<request, fetchPc, timer, aborted, caught, fetchOut>>

-----------------------------------------------------------------------------
(* The tool handlers and the service calls they make *)

ServiceOps ==
    {"getMetar", "getTaf", "getPireps", "getAirmets", "getStationInfo",
     "getMetarByBounds", "getTafByBounds"}

\* a service call that was not made, and one whose request is in flight
NotCalled == [kind |-> "none", name |-> "", message |-> "", value |-> ""]
Awaiting == [kind |-> "pending", name |-> "", message |-> "", value |-> ""]

Fulfilled(value) == [kind |-> "ok", name |-> "", message |-> "", value |-> value]
Rejected(name, message) == [kind |-> "error", name |-> name, message |-> message, value |-> ""]

\* what a service call can throw: the structured errors of fetchWithTimeout
\* and of the bounds queries
RequestErrors ==
    {Rejected("TIMEOUT", "Request timed out"),
     Rejected("FETCH_ERROR", "fetch failed"),
     Rejected("FETCH_ERROR", "")}

\* how each service call can end
CallResults(op) ==
    CASE op \in {"getMetar", "getTaf", "getPireps", "getAirmets"} ->
            {Fulfilled("empty"), Fulfilled("records"),
             Rejected("INVALID_RESPONSE", "Expected array"),
             Rejected("TypeError", "Cannot read properties of undefined")}
            \cup RequestErrors
      [] op = "getStationInfo" ->
            {Fulfilled("coordinates"), Fulfilled("noCoordinates"),
             Rejected("STATION_NOT_FOUND", "Station not found")}
            \cup RequestErrors
      [] op \in {"getMetarByBounds", "getTafByBounds"} ->
            {Fulfilled("empty"), Fulfilled("records")} \cup RequestErrors

\* the tools that call the service, with the arguments that decide which calls
\* they make
ToolNames ==
    {"get-metar", "get-taf", "get-pireps", "get-airmets", "get-station-info",
     "check-vfr-minimums", "get-weather-along-route"}
ToolCalls ==
    [name : ToolNames, given : {"station"}, includeMetar : {TRUE},
     includeTaf : {FALSE}, includePireps : {FALSE}]
    \cup [name : {"determine-flight-category"}, given : {"station", "values", "nothing"},
          includeMetar : {TRUE}, includeTaf : {FALSE}, includePireps : {FALSE}]
    \cup [name : {"get-weather-by-radius"}, given : {"station"}, includeMetar : BOOLEAN,
          includeTaf : BOOLEAN, includePireps : BOOLEAN]

NoToolResult == [isError |-> FALSE, text |-> <<>>]

\* the result of a handler's success path: JSON.stringify of what it built
jsonResult(value) == [isError |-> FALSE, text |-> <<"json", value>>]

\* a catch block that reports the error without marking the result
errorResult_unmarked(error, fallback) ==
    [isError |-> FALSE,
     text |-> <<"Error: ", IF error.message # "" THEN error.message ELSE fallback>>]

\* the result of a handler's catch block:
\* `Error: ${error.message || fallback}`, isError: true
errorResult(error, fallback) ==
    [isError |-> TRUE,
     text |-> <<"Error: ", IF error.message # "" THEN error.message ELSE fallback>>]

\* the fallback message of each handler's catch block; the analysis tools
\* have none
fallbackMessage(name) ==
    CASE name \in {"determine-flight-category", "check-vfr-minimums"} -> ""
      [] name = "get-station-info" -> "Station not found"
      [] OTHER -> "Unknown error occurred"

\* the service call a one-call handler makes
serviceCallOf(name) ==
    CASE name = "get-metar" -> "getMetar"
      [] name = "get-taf" -> "getTaf"
      [] name = "get-pireps" -> "getPireps"
      [] name = "get-airmets" -> "getAirmets"
      [] name = "get-station-info" -> "getStationInfo"
      [] name = "check-vfr-minimums" -> "getMetar"
      [] name = "determine-flight-category" -> "getMetar"

\* the requests get-weather-by-radius makes for its flags, in call order
radiusCalls(t) ==
    (IF t.includeMetar THEN <<"getMetarByBounds">> ELSE <<>>)
    \o (IF t.includeTaf THEN <<"getTafByBounds">> ELSE <<>>)
    \o (IF t.includePireps THEN <<"getPireps">> ELSE <<>>)

Range(seq) == {seq[i] : i \in 1..Len(seq)}

\* the handler calls the service functions of ops, one after the other without
\* awaiting in between: each runs up to its fetch, so all requests are issued
IssueAll(ops) ==
    /\ calls' = [op \in ServiceOps |-> IF op \in Range(ops) THEN Awaiting ELSE calls[op]]
    /\ upstreamLog' = upstreamLog \o [i \in 1..Len(ops) |-> [kind |-> "request", op |-> ops[i]]]
    /\ awaited' = Range(ops)

\* the handler returns result, having caught error (NoError on the success path)
Return(result, error) ==
    /\ toolPc' = "done"
    /\ toolResult' = result
    /\ toolCaught' = error

\* get-metar, get-taf, get-pireps, get-airmets, get-station-info and
\* check-vfr-minimums up to their await
OneCallTool ==
    /\ toolPc = "start"
    /\ tool.name \in ToolNames \ {"get-weather-along-route"}
    /\ IssueAll(<<serviceCallOf(tool.name)>>)
    /\ toolPc' = "await"
    /\ UNCHANGED <<tool, toolResult, toolCaught>>

\* determine-flight-category: the station branch up to its await, the
\* ceiling/visibility branch, and the throw when neither is given
DetermineCategoryTool ==
    /\ toolPc = "start"
    /\ tool.name = "determine-flight-category"
    /\ \/ /\ tool.given = "station"
          /\ IssueAll(<<"getMetar">>)
          /\ toolPc' = "await"
          /\ UNCHANGED <<toolResult, toolCaught>>
       \/ /\ tool.given = "values"
          /\ Return(jsonResult("category"), NoError)
          /\ UNCHANGED <<calls, upstreamLog, awaited>>
       \/ /\ tool.given = "nothing"
          /\ LET error == Rejected("Error", "Either station or ceiling/visibility must be provided")
             IN Return(errorResult(error, fallbackMessage(tool.name)), error)
          /\ UNCHANGED <<calls, upstreamLog, awaited>>
    /\ UNCHANGED tool

\* get-weather-along-route up to its await: Promise.all of getMetar and getTaf
RouteTool ==
    /\ toolPc = "start"
    /\ tool.name = "get-weather-along-route"
    /\ IssueAll(<<"getMetar", "getTaf">>)
    /\ toolPc' = "await"
    /\ UNCHANGED <<tool, toolResult, toolCaught>>

\* get-weather-by-radius up to its first await: getStationInfo
RadiusTool ==
    /\ toolPc = "start"
    /\ tool.name = "get-weather-by-radius"
    /\ IssueAll(<<"getStationInfo">>)
    /\ toolPc' = "awaitStation"
    /\ UNCHANGED <<tool, toolResult, toolCaught>>

\* a service call ends: its request was answered, or failed
Settle ==
    /\ \E op \in ServiceOps :
          /\ calls[op] = Awaiting
          /\ \E r \in CallResults(op) : calls' = [calls EXCEPT ![op] = r]
    /\ toolPc # "start"
    /\ UNCHANGED <<tool, toolPc, awaited, upstreamLog, toolResult, toolCaught>>

\* get-weather-by-radius after getStationInfo fulfilled: the coordinates
\* check, the bounds, and the requests pushed for the flags
RadiusFetch ==
    /\ toolPc = "awaitStation"
    /\ calls["getStationInfo"].kind = "ok"
    /\ IF calls["getStationInfo"].value = "noCoordinates"
       THEN /\ LET error == Rejected("Error", "Unable to find coordinates for airport")
               IN Return(errorResult(error, fallbackMessage(tool.name)), error)
            /\ UNCHANGED <<calls, upstreamLog, awaited>>
       ELSE /\ IssueAll(radiusCalls(tool))
            /\ toolPc' = "await"
            /\ UNCHANGED <<toolResult, toolCaught>>
    /\ UNCHANGED tool

\* an awaited call rejected (the first rejection settles Promise.all): the
\* handler's catch block
ToolCatches ==
    /\ toolPc \in {"await", "awaitStation"}
    /\ \E op \in awaited :
          /\ calls[op].kind = "error"
          /\ Return(errorResult(calls[op], fallbackMessage(tool.name)), calls[op])
    /\ UNCHANGED <<tool, calls, awaited, upstreamLog>>

\* all awaited calls fulfilled: the rest of the handler.
\* determine-flight-category throws when the list is empty.
ToolReturns ==
    /\ toolPc = "await"
    /\ \A op \in awaited : calls[op].kind = "ok"
    /\ IF tool.name = "determine-flight-category" /\ calls["getMetar"].value = "empty"
       THEN LET error == Rejected("Error", "No METAR data available")
            IN Return(errorResult(error, fallbackMessage(tool.name)), error)
       ELSE Return(jsonResult(tool.name), NoError)
    /\ UNCHANGED <<tool, calls, awaited, upstreamLog>>

-----------------------------------------------------------------------------
(* getPireps: the query it sends upstream *)

\* the values a bound or hoursBack is called with: not supplied, zero (the
\* equator, the prime meridian), and numbers either side of it
OptionValues == {Undef, Num(0), Whole(40), Whole(0 - 105)}
PirepOptions ==
    [minLat : OptionValues, maxLat : OptionValues, minLon : OptionValues,
     maxLon : OptionValues, hoursBack : {Undef, Whole(6)}]

NoQuery == [hours |-> Undef, bounds |-> <<>>]

\* the URLSearchParams getPireps builds: hours, and the four bounds appended
\* in order when the condition holds
pirepParams(o) ==
    [hours  |-> OrElse(o.hoursBack, Whole(3)),
     bounds |-> IF Truthy(o.minLat) /\ Truthy(o.maxLat) /\ Truthy(o.minLon) /\ Truthy(o.maxLon)
                THEN <<o.minLat, o.maxLat, o.minLon, o.maxLon>>
                ELSE <<>>]

\* getPireps(options) up to its request
PirepRequest ==
    /\ query = NoQuery
    /\ query' = pirepParams(options)
    /\ UNCHANGED options

-----------------------------------------------------------------------------
(* The mappers on records whose optional fields are missing, of another type
   or malformed: where they throw *)

\* values of a field besides undefined, null, numbers and strings: arrays (of
\* no element, of one null, of one empty object) and an object
EmptyArray  == [t |-> "array",  n |-> 0, s |-> <<>>]
NullArray   == [t |-> "array",  n |-> 1, s |-> <<"null">>]
ObjectArray == [t |-> "array",  n |-> 1, s |-> <<"object">>]
SomeObject  == [t |-> "object", n |-> 0, s |-> <<>>]

FieldValues ==
    {Undef, Null, Num(0), Whole(2), Str(<<>>), Str(<<"M", "o", "d", "e", "r", "a", "t", "e">>),
     EmptyArray, NullArray, ObjectArray, SomeObject}

\* one record of each kind, with the two fields its mapper hands on:
\* hazard / hazardType, forecast / fcsts, turbulence / icing, clouds / skyCondition
Items ==
    [kind : {"airmet", "taf", "pirep", "metar"}, first : FieldValues, second : FieldValues]

\* reading a property of an element of the array throws when the element is null
ElementThrows(v) == v.t = "array" /\ "null" \in {v.s[i] : i \in 1..Len(v.s)}

\* parseTurbulenceIntensity(value) and parseIcingIntensity(value)
parseTurbulenceIntensity(value) ==
    IF value.t # "str" THEN "TypeError"
    ELSE LET upper == toUpperCase(value.s)
         IN IF Includes(upper, <<"E", "X", "T", "R", "E", "M", "E">>) THEN "EXTREME"
            ELSE IF Includes(upper, <<"S", "E", "V", "E", "R", "E">>) THEN "SEVERE"
            ELSE IF Includes(upper, <<"M", "O", "D", "E", "R", "A", "T", "E">>) THEN "MODERATE"
            ELSE "LIGHT"

parseIcingIntensity(value) ==
    IF value.t # "str" THEN "TypeError"
    ELSE LET upper == toUpperCase(value.s)
         IN IF Includes(upper, <<"S", "E", "V", "E", "R", "E">>) THEN "SEVERE"
            ELSE IF Includes(upper, <<"M", "O", "D", "E", "R", "A", "T", "E">>) THEN "MODERATE"
            ELSE IF Includes(upper, <<"T", "R", "A", "C", "E">>) THEN "TRACE"
            ELSE "LIGHT"

\* parseClouds(clouds) throws: never for a value that is no array
cloudsThrow(clouds) == ElementThrows(clouds)

\* parseMetarResponse(data) throws: in parseClouds(data.clouds ||
\* data.skyCondition || []) or in determineFlightCategory's
\* parseClouds(data.clouds || [])
metarThrows(d) ==
    \/ cloudsThrow(OrElse(OrElse(d.first, d.second), EmptyArray))
    \/ cloudsThrow(OrElse(d.first, EmptyArray))

\* parseTafResponse(data) throws: in forecasts.map, when the field is truthy
\* and has no map method, or on a null element
tafThrows(d) ==
    /\ Truthy(d.first) \/ Truthy(d.second)
    /\ LET forecasts == OrElse(d.first, d.second)
       IN forecasts.t # "array" \/ ElementThrows(forecasts)

\* parsePirepResponse(data) throws: in parseTurbulenceIntensity or
\* parseIcingIntensity, called when the field is truthy
pirepThrows(d) ==
    \/ Truthy(d.first) /\ parseTurbulenceIntensity(d.first) = "TypeError"
    \/ Truthy(d.second) /\ parseIcingIntensity(d.second) = "TypeError"

\* parseAirmetResponse(data) throws: in parseHazardType(data.hazard || data.hazardType)
airmetThrows(d) == parseHazardType(OrElse(d.first, d.second)) = "TypeError"

mapperThrows(d) ==
    CASE d.kind = "metar"  -> metarThrows(d)
      [] d.kind = "taf"    -> tafThrows(d)
      [] d.kind = "pirep"  -> pirepThrows(d)
      [] d.kind = "airmet" -> airmetThrows(d)

NotMapped == [state |-> "none", by |-> ""]

\* data.map(item => this.parse...Response(item)) on one item
MapRecord ==
    /\ mapped = NotMapped
    /\ mapped' = IF mapperThrows(item)
                 THEN [state |-> "raised", by |-> "TypeError"]
                 ELSE [state |-> "returned", by |-> ""]
    /\ UNCHANGED item

-----------------------------------------------------------------------------
(* The value normalizers of the report mappers, applied to one argument:
   the intensity and hazard tables, parseClouds on raw entries of every
   kind, and the numeric coercions of the fields *)

\* most words of a raw intensity or hazard string
MaxWords == 2

\* the words raw intensity and hazard strings are made of
Words ==
    { <<"E", "X", "T", "R", "E", "M", "E">>,
      <<"S", "e", "v", "e", "r", "e">>,
      <<"m", "o", "d", "e", "r", "a", "t", "e">>,
      <<"L", "I", "G", "H", "T">>,
      <<"t", "r", "a", "c", "e">>,
      <<"I", "F", "R">>,
      <<"M", "o", "u", "n", "t", "a", "i", "n">>,
      <<"M", "T", "N">>,
      <<"T", "u", "r", "b">>,
      <<"I", "C", "E">>,
      <<"i", "c", "i", "n", "g">>,
      <<"W", "I", "N", "D">>,
      <<"s", "h", "e", "a", "r">>,
      <<"S", "F", "C">> }

\* words joined with single spaces; the mappers hand on no empty string
WordStrings == {Join(ws) : ws \in UNION {[1..k -> Words] : k \in 1..MaxWords}}

\* raw cloud entries: cover and skyCover missing (""), recognized or not, and
\* bases missing, zero, numeric and not numeric
RawCovers == {"", "BKN", "VV"}
RawSkyCovers == {"", "OVC"}
RawBases == {Undef, Num(0), Whole(25), Str(<<"0", "3", "0">>), Str(<<"a", "b", "c">>)}
RawEntries == [cover : RawCovers, skyCover : RawSkyCovers, base : RawBases]
RawClouds == UNION {[1..k -> RawEntries] : k \in 0..MaxLayers}

\* the numeric source fields of a report and of a station record
FloatFields == {"temp", "dewp", "altim", "lat", "lon"}
IntFields == {"wdir", "wspd", "wgst"}
GuardedIntFields == {"base", "elev"}
NumericFields == FloatFields \cup IntFields \cup GuardedIntFields \cup {"visib"}

\* values of a numeric field: missing, numbers (zero, whole, with a
\* fraction, negative), numeric strings and a string that is no number
NumericValues ==
    {Undef, Null, Num(0), Whole(7), Num(Scale \div 2), Num(0 - 3 * Scale),
     Str(<<"0">>), Str(<<"1", "2">>), Str(<<"0", ".", "5">>), Str(<<"a", "b", "c">>)}

\* the mapped value of a numeric field:
\*   parseFloat(data.temp) || undefined     (temp, dewp, altim, lat, lon)
\*   parseInt(data.wdir) || undefined       (wdir, wspd, wgst)
\*   this.parseVisibility(data.visib)
\*   cloud.base ? parseInt(cloud.base) : undefined   (base, elev)
coerceField(name, v) ==
    CASE name \in FloatFields      -> OrElse(parseFloat(v), Undef)
      [] name \in IntFields        -> OrElse(parseInt(v), Undef)
      [] name = "visib"            -> parseVisibility(v)
      [] name \in GuardedIntFields -> IF Truthy(v) THEN parseInt(v) ELSE Undef

Args ==
    [fn : {"parseTurbulenceIntensity", "parseIcingIntensity", "parseHazardType"},
     value : {Str(s) : s \in WordStrings}]
    \cup [fn : {"parseClouds"}, value : RawClouds]
    \cup [fn : NumericFields, value : NumericValues]

NotReturned == [fn |-> "none", value |-> Undef]

\* parsePirepResponse: intensity: this.parseTurbulenceIntensity(data.turbulence)
ParseTurbulenceIntensity ==
    /\ returned.fn = "none"
    /\ arg.fn = "parseTurbulenceIntensity"
    /\ returned' = [fn |-> arg.fn, value |-> parseTurbulenceIntensity(arg.value)]
    /\ UNCHANGED arg

\* parsePirepResponse: intensity: this.parseIcingIntensity(data.icing)
ParseIcingIntensity ==
    /\ returned.fn = "none"
    /\ arg.fn = "parseIcingIntensity"
    /\ returned' = [fn |-> arg.fn, value |-> parseIcingIntensity(arg.value)]
    /\ UNCHANGED arg

\* parseAirmetResponse: hazardType: this.parseHazardType(data.hazard || data.hazardType)
ParseHazardType ==
    /\ returned.fn = "none"
    /\ arg.fn = "parseHazardType"
    /\ returned' = [fn |-> arg.fn, value |-> parseHazardType(arg.value)]
    /\ UNCHANGED arg

\* parseMetarResponse: clouds: this.parseClouds(...)
ParseClouds ==
    /\ returned.fn = "none"
    /\ arg.fn = "parseClouds"
    /\ returned' = [fn |-> arg.fn, value |-> parseClouds(arg.value)]
    /\ UNCHANGED arg

\* one numeric field of parseMetarResponse, parseClouds or getStationInfo
CoerceField ==
    /\ returned.fn = "none"
    /\ arg.fn \in NumericFields
    /\ returned' = [fn |-> arg.fn, value |-> coerceField(arg.fn, arg.value)]
    /\ UNCHANGED arg

-----------------------------------------------------------------------------
(* The HTTP transport: the session table `transports` and the handlers of
   /mcp and /health.  A handler runs to its next await in one step; the
   transport and the server of the SDK are the environment: connecting and
   handling a request resolve or reject, a connected transport may close. *)

\* most sessions ever created
MaxSessions == 2

\* the session ids randomUUID() hands out
SessionIds == 1..MaxSessions

\* values of the mcp-session-id header: none, a session id, and the name of a
\* property every object inherits ('constructor', 'toString', '__proto__')
Missing == 0
Inherited == MaxSessions + 1
Headers == {Missing} \cup SessionIds \cup {Inherited}

\* transports[sessionId] is truthy: an entry of the table, or a property the
\* table inherits from Object.prototype
Found(header) == header \in transports \/ header = Inherited

NoReply ==
    [route |-> "none", header |-> Missing, init |-> FALSE, known |-> FALSE,
     status |-> "none", by |-> Missing, sessions |-> 0]

\* the answer to a request on /mcp
Reply(route, header, init, status) ==
    [route |-> route, header |-> header, init |-> init, known |-> header \in transports,
     status |-> status, by |-> IF status = "transport" THEN header ELSE Missing,
     sessions |-> 0]

\* app.post('/mcp') up to its first await or its response
PostMcp ==
    \E header \in Headers, init \in BOOLEAN :
        IF header # Missing /\ Found(header)
        THEN \* transport.handleRequest of the value found: a TypeError when it
             \* is no transport; the catch block answers 500
             /\ \E resolves \in BOOLEAN :
                   reply' = Reply("POST", header, init,
                                  IF header \in transports /\ resolves
                                  THEN "transport" ELSE "500")
             /\ UNCHANGED <<transports, transportState, initPc>>
        ELSE IF init
        THEN \* transports[newSessionId] = transport; ...; await server.connect(transport)
             /\ \E newSessionId \in {s \in SessionIds : transportState[s] = "unused"} :
                   /\ transports' = transports \cup {newSessionId}
                   /\ transportState' = [transportState EXCEPT ![newSessionId] = "created"]
                   /\ initPc' = [initPc EXCEPT ![newSessionId] = "connect"]
             /\ UNCHANGED reply
        ELSE /\ reply' = Reply("POST", header, init, "400")
             /\ UNCHANGED <<transports, transportState, initPc>>

\* await server.connect(transport) resolves; await transport.handleRequest follows
ConnectResolves ==
    \E s \in SessionIds :
        /\ initPc[s] = "connect"
        /\ initPc' = [initPc EXCEPT ![s] = "handle"]
        /\ transportState' = [transportState EXCEPT ![s] = "connected"]
        /\ UNCHANGED <<transports, reply>>

\* the catch block of app.post('/mcp')
catchBlock500(s) ==
    /\ initPc' = [initPc EXCEPT ![s] = "failed"]
    /\ reply' = [Reply("POST", Missing, TRUE, "500") EXCEPT !.by = s]
    /\ UNCHANGED transports

\* await server.connect(transport) rejects
ConnectRejects ==
    \E s \in SessionIds :
        /\ initPc[s] = "connect"
        /\ catchBlock500(s)
        /\ UNCHANGED transportState

\* the transport answers the initialize request
InitializeResolves ==
    \E s \in SessionIds :
        /\ initPc[s] = "handle"
        /\ initPc' = [initPc EXCEPT ![s] = "done"]
        /\ reply' = [Reply("POST", Missing, TRUE, "transport") EXCEPT !.by = s]
        /\ UNCHANGED <<transports, transportState>>

\* await transport.handleRequest(req, res, req.body) rejects
InitializeRejects ==
    \E s \in SessionIds :
        /\ initPc[s] = "handle"
        /\ catchBlock500(s)
        /\ UNCHANGED transportState

\* app.get('/mcp') and app.delete('/mcp'): the same handler.  Nothing catches
\* the TypeError of a value that is no transport: the request gets no answer,
\* or the 500 of the framework's error handler
sessionRequest(route) ==
    /\ \E header \in Headers :
          IF header = Missing \/ ~Found(header)
          THEN reply' = Reply(route, header, FALSE, "400")
          ELSE IF header \in transports
          THEN reply' = Reply(route, header, FALSE, "transport")
          ELSE \E status \in {"none", "500"} : reply' = Reply(route, header, FALSE, status)
    /\ UNCHANGED <<transports, transportState, initPc>>

GetMcp == sessionRequest("GET")

DeleteMcp == sessionRequest("DELETE")

\* transport.onclose: delete transports[newSessionId]
TransportCloses ==
    \E s \in SessionIds :
        /\ transportState[s] = "connected"
        /\ transportState' = [transportState EXCEPT ![s] = "closed"]
        /\ transports' = transports \ {s}
        /\ UNCHANGED <<initPc, reply>>

\* app.get('/health'): sessions: Object.keys(transports).length
Health ==
    /\ reply' = [NoReply EXCEPT !.route = "GET /health", !.status = "200",
                                !.sessions = Cardinality(transports)]
    /\ UNCHANGED <<transports, transportState, initPc>>

-----------------------------------------------------------------------------
(* Specifications: each exercises one part of the program and holds the other
   parts still *)

vars ==
    <<classifyVars, normalizeVars, mapperVars, textVars, serviceVars, decodeVars,
      fetchVars, toolVars, pirepVars, looseVars, valueVars, sessionVars>>

\* the record and the arguments of a part that is held still
IdleArgs == [ceiling |-> Undef, visibility |-> Undef]
IdleData == Record(Undef, "clouds", <<>>)
IdleCall == [op |-> "none", station |-> ""]
IdleResponse == [net |-> "none", httpOk |-> FALSE, contentType |-> "none", body |-> NoBody]

\* the caller's ceiling and visibility, nothing computed yet
InitClassify ==
    /\ fcArgs \in [ceiling : CeilingArgs, visibility : VisibilityArgs]
    /\ fcCategory = "none"
    /\ fcTool = NoResult
    /\ visRaw = Undef
    /\ visOut = NotRun
    /\ data = IdleData
    /\ metar = NoMetar
    /\ ceilingUsed = Undef
    /\ vfrCheck = NoCheck
    /\ text = <<>>
    /\ segOut = NoSeg
    /\ reOut = NoReseg
    /\ call = IdleCall
    /\ response = IdleResponse
    /\ outcome = Pending
    /\ handled = "none"
    /\ raw = <<>>
    /\ decodeOut = NotDecoded
    /\ request = "none"
    /\ fetchPc = "idle"
    /\ timer = "unset"
    /\ aborted = FALSE
    /\ elapsed = 0
    /\ caught = NoError
    /\ fetchOut = Requesting
    /\ tool = [name |-> "none", given |-> "nothing", includeMetar |-> FALSE, includeTaf |-> FALSE, includePireps |-> FALSE]
    /\ toolPc = "idle"
    /\ calls = [op \in ServiceOps |-> NotCalled]
    /\ awaited = {}
    /\ upstreamLog = <<>>
    /\ toolResult = NoToolResult
    /\ toolCaught = NoError
    /\ options = [minLat |-> Undef, maxLat |-> Undef, minLon |-> Undef, maxLon |-> Undef, hoursBack |-> Undef]
    /\ query = NoQuery
    /\ item = [kind |-> "none", first |-> Undef, second |-> Undef]
    /\ mapped = NotMapped
    /\ arg = [fn |-> "none", value |-> Undef]
    /\ returned = NotReturned
    /\ transports = {}
    /\ transportState = [s \in SessionIds |-> "unused"]
    /\ initPc = [s \in SessionIds |-> "none"]
    /\ reply = NoReply

NextClassify ==
    \/ Classify /\ UNCHANGED <<normalizeVars, mapperVars, textVars, serviceVars, decodeVars,
                               fetchVars, toolVars, pirepVars, looseVars, valueVars, sessionVars>>
    \/ CallTool /\ UNCHANGED <<normalizeVars, mapperVars, textVars, serviceVars, decodeVars,
                               fetchVars, toolVars, pirepVars, looseVars, valueVars, sessionVars>>

SpecClassify == InitClassify /\ [][NextClassify]_vars

\* a raw visibility, not yet normalized
InitNormalize ==
    /\ visRaw \in VisInputs
    /\ visOut = NotRun
    /\ fcArgs = IdleArgs
    /\ fcCategory = "none"
    /\ fcTool = NoResult
    /\ data = IdleData
    /\ metar = NoMetar
    /\ ceilingUsed = Undef
    /\ vfrCheck = NoCheck
    /\ text = <<>>
    /\ segOut = NoSeg
    /\ reOut = NoReseg
    /\ call = IdleCall
    /\ response = IdleResponse
    /\ outcome = Pending
    /\ handled = "none"
    /\ raw = <<>>
    /\ decodeOut = NotDecoded
    /\ request = "none"
    /\ fetchPc = "idle"
    /\ timer = "unset"
    /\ aborted = FALSE
    /\ elapsed = 0
    /\ caught = NoError
    /\ fetchOut = Requesting
    /\ tool = [name |-> "none", given |-> "nothing", includeMetar |-> FALSE, includeTaf |-> FALSE, includePireps |-> FALSE]
    /\ toolPc = "idle"
    /\ calls = [op \in ServiceOps |-> NotCalled]
    /\ awaited = {}
    /\ upstreamLog = <<>>
    /\ toolResult = NoToolResult
    /\ toolCaught = NoError
    /\ options = [minLat |-> Undef, maxLat |-> Undef, minLon |-> Undef, maxLon |-> Undef, hoursBack |-> Undef]
    /\ query = NoQuery
    /\ item = [kind |-> "none", first |-> Undef, second |-> Undef]
    /\ mapped = NotMapped
    /\ arg = [fn |-> "none", value |-> Undef]
    /\ returned = NotReturned
    /\ transports = {}
    /\ transportState = [s \in SessionIds |-> "unused"]
    /\ initPc = [s \in SessionIds |-> "none"]
    /\ reply = NoReply

NextNormalize ==
    \/ ParseVisibility /\ UNCHANGED <<classifyVars, mapperVars, textVars, serviceVars, decodeVars,
                                      fetchVars, toolVars, pirepVars, looseVars, valueVars,
                                      sessionVars>>

SpecNormalize == InitNormalize /\ [][NextNormalize]_vars

\* a structured record, not yet mapped
InitMapper ==
    /\ \E v \in RecordVisibs, key \in CloudKeys, layers \in LayerLists :
          data = Record(v, key, layers)
    /\ metar = NoMetar
    /\ ceilingUsed = Undef
    /\ vfrCheck = NoCheck
    /\ fcArgs = IdleArgs
    /\ fcCategory = "none"
    /\ fcTool = NoResult
    /\ visRaw = Undef
    /\ visOut = NotRun
    /\ text = <<>>
    /\ segOut = NoSeg
    /\ reOut = NoReseg
    /\ call = IdleCall
    /\ response = IdleResponse
    /\ outcome = Pending
    /\ handled = "none"
    /\ raw = <<>>
    /\ decodeOut = NotDecoded
    /\ request = "none"
    /\ fetchPc = "idle"
    /\ timer = "unset"
    /\ aborted = FALSE
    /\ elapsed = 0
    /\ caught = NoError
    /\ fetchOut = Requesting
    /\ tool = [name |-> "none", given |-> "nothing", includeMetar |-> FALSE, includeTaf |-> FALSE, includePireps |-> FALSE]
    /\ toolPc = "idle"
    /\ calls = [op \in ServiceOps |-> NotCalled]
    /\ awaited = {}
    /\ upstreamLog = <<>>
    /\ toolResult = NoToolResult
    /\ toolCaught = NoError
    /\ options = [minLat |-> Undef, maxLat |-> Undef, minLon |-> Undef, maxLon |-> Undef, hoursBack |-> Undef]
    /\ query = NoQuery
    /\ item = [kind |-> "none", first |-> Undef, second |-> Undef]
    /\ mapped = NotMapped
    /\ arg = [fn |-> "none", value |-> Undef]
    /\ returned = NotReturned
    /\ transports = {}
    /\ transportState = [s \in SessionIds |-> "unused"]
    /\ initPc = [s \in SessionIds |-> "none"]
    /\ reply = NoReply

NextMapper ==
    \/ ParseMetarResponse /\ UNCHANGED <<classifyVars, normalizeVars, textVars, serviceVars,
                                         decodeVars, fetchVars, toolVars, pirepVars, looseVars,
                                         valueVars, sessionVars>>
    \/ CheckVfrMinimums /\ UNCHANGED <<classifyVars, normalizeVars, textVars, serviceVars,
                                       decodeVars, fetchVars, toolVars, pirepVars, looseVars,
                                       valueVars, sessionVars>>

SpecMapper == InitMapper /\ [][NextMapper]_vars

\* a raw-text body, not yet segmented
InitText ==
    /\ text \in Texts
    /\ segOut = NoSeg
    /\ reOut = NoReseg
    /\ fcArgs = IdleArgs
    /\ fcCategory = "none"
    /\ fcTool = NoResult
    /\ visRaw = Undef
    /\ visOut = NotRun
    /\ data = IdleData
    /\ metar = NoMetar
    /\ ceilingUsed = Undef
    /\ vfrCheck = NoCheck
    /\ call = IdleCall
    /\ response = IdleResponse
    /\ outcome = Pending
    /\ handled = "none"
    /\ raw = <<>>
    /\ decodeOut = NotDecoded
    /\ request = "none"
    /\ fetchPc = "idle"
    /\ timer = "unset"
    /\ aborted = FALSE
    /\ elapsed = 0
    /\ caught = NoError
    /\ fetchOut = Requesting
    /\ tool = [name |-> "none", given |-> "nothing", includeMetar |-> FALSE, includeTaf |-> FALSE, includePireps |-> FALSE]
    /\ toolPc = "idle"
    /\ calls = [op \in ServiceOps |-> NotCalled]
    /\ awaited = {}
    /\ upstreamLog = <<>>
    /\ toolResult = NoToolResult
    /\ toolCaught = NoError
    /\ options = [minLat |-> Undef, maxLat |-> Undef, minLon |-> Undef, maxLon |-> Undef, hoursBack |-> Undef]
    /\ query = NoQuery
    /\ item = [kind |-> "none", first |-> Undef, second |-> Undef]
    /\ mapped = NotMapped
    /\ arg = [fn |-> "none", value |-> Undef]
    /\ returned = NotReturned
    /\ transports = {}
    /\ transportState = [s \in SessionIds |-> "unused"]
    /\ initPc = [s \in SessionIds |-> "none"]
    /\ reply = NoReply

NextText ==
    \/ SegmentMetars /\ UNCHANGED <<classifyVars, normalizeVars, mapperVars, serviceVars,
                                    decodeVars, fetchVars, toolVars, pirepVars, looseVars,
                                    valueVars, sessionVars>>
    \/ SegmentTafs /\ UNCHANGED <<classifyVars, normalizeVars, mapperVars, serviceVars, decodeVars,
                                  fetchVars, toolVars, pirepVars, looseVars, valueVars,
                                  sessionVars>>
    \/ Resegment /\ UNCHANGED <<classifyVars, normalizeVars, mapperVars, serviceVars, decodeVars,
                                fetchVars, toolVars, pirepVars, looseVars, valueVars, sessionVars>>

SpecText == InitText /\ [][NextText]_vars

\* a service call whose request the upstream has answered
InitService ==
    /\ call \in Calls
    /\ response \in Responses
    /\ outcome = Pending
    /\ handled = "none"
    /\ fcArgs = IdleArgs
    /\ fcCategory = "none"
    /\ fcTool = NoResult
    /\ visRaw = Undef
    /\ visOut = NotRun
    /\ data = IdleData
    /\ metar = NoMetar
    /\ ceilingUsed = Undef
    /\ vfrCheck = NoCheck
    /\ text = <<>>
    /\ segOut = NoSeg
    /\ reOut = NoReseg
    /\ raw = <<>>
    /\ decodeOut = NotDecoded
    /\ request = "none"
    /\ fetchPc = "idle"
    /\ timer = "unset"
    /\ aborted = FALSE
    /\ elapsed = 0
    /\ caught = NoError
    /\ fetchOut = Requesting
    /\ tool = [name |-> "none", given |-> "nothing", includeMetar |-> FALSE, includeTaf |-> FALSE, includePireps |-> FALSE]
    /\ toolPc = "idle"
    /\ calls = [op \in ServiceOps |-> NotCalled]
    /\ awaited = {}
    /\ upstreamLog = <<>>
    /\ toolResult = NoToolResult
    /\ toolCaught = NoError
    /\ options = [minLat |-> Undef, maxLat |-> Undef, minLon |-> Undef, maxLon |-> Undef, hoursBack |-> Undef]
    /\ query = NoQuery
    /\ item = [kind |-> "none", first |-> Undef, second |-> Undef]
    /\ mapped = NotMapped
    /\ arg = [fn |-> "none", value |-> Undef]
    /\ returned = NotReturned
    /\ transports = {}
    /\ transportState = [s \in SessionIds |-> "unused"]
    /\ initPc = [s \in SessionIds |-> "none"]
    /\ reply = NoReply

NextService ==
    \/ GetMetar /\ UNCHANGED <<classifyVars, normalizeVars, mapperVars, textVars, decodeVars,
                               fetchVars, toolVars, pirepVars, looseVars, valueVars, sessionVars>>
    \/ GetTaf /\ UNCHANGED <<classifyVars, normalizeVars, mapperVars, textVars, decodeVars,
                             fetchVars, toolVars, pirepVars, looseVars, valueVars, sessionVars>>
    \/ GetPireps /\ UNCHANGED <<classifyVars, normalizeVars, mapperVars, textVars, decodeVars,
                                fetchVars, toolVars, pirepVars, looseVars, valueVars, sessionVars>>
    \/ GetAirmets /\ UNCHANGED <<classifyVars, normalizeVars, mapperVars, textVars, decodeVars,
                                 fetchVars, toolVars, pirepVars, looseVars, valueVars, sessionVars>>
    \/ GetMetarByBounds /\ UNCHANGED <<classifyVars, normalizeVars, mapperVars, textVars,
                                       decodeVars, fetchVars, toolVars, pirepVars, looseVars,
                                       valueVars, sessionVars>>
    \/ GetTafByBounds /\ UNCHANGED <<classifyVars, normalizeVars, mapperVars, textVars, decodeVars,
                                     fetchVars, toolVars, pirepVars, looseVars, valueVars,
                                     sessionVars>>
    \/ GetStationInfo /\ UNCHANGED <<classifyVars, normalizeVars, mapperVars, textVars, decodeVars,
                                     fetchVars, toolVars, pirepVars, looseVars, valueVars,
                                     sessionVars>>

SpecService == InitService /\ [][NextService]_vars

\* a raw report, not yet decoded
InitDecode ==
    /\ raw \in Reports
    /\ decodeOut = NotDecoded
    /\ fcArgs = IdleArgs
    /\ fcCategory = "none"
    /\ fcTool = NoResult
    /\ visRaw = Undef
    /\ visOut = NotRun
    /\ data = IdleData
    /\ metar = NoMetar
    /\ ceilingUsed = Undef
    /\ vfrCheck = NoCheck
    /\ text = <<>>
    /\ segOut = NoSeg
    /\ reOut = NoReseg
    /\ call = IdleCall
    /\ response = IdleResponse
    /\ outcome = Pending
    /\ handled = "none"
    /\ request = "none"
    /\ fetchPc = "idle"
    /\ timer = "unset"
    /\ aborted = FALSE
    /\ elapsed = 0
    /\ caught = NoError
    /\ fetchOut = Requesting
    /\ tool = [name |-> "none", given |-> "nothing", includeMetar |-> FALSE, includeTaf |-> FALSE, includePireps |-> FALSE]
    /\ toolPc = "idle"
    /\ calls = [op \in ServiceOps |-> NotCalled]
    /\ awaited = {}
    /\ upstreamLog = <<>>
    /\ toolResult = NoToolResult
    /\ toolCaught = NoError
    /\ options = [minLat |-> Undef, maxLat |-> Undef, minLon |-> Undef, maxLon |-> Undef, hoursBack |-> Undef]
    /\ query = NoQuery
    /\ item = [kind |-> "none", first |-> Undef, second |-> Undef]
    /\ mapped = NotMapped
    /\ arg = [fn |-> "none", value |-> Undef]
    /\ returned = NotReturned
    /\ transports = {}
    /\ transportState = [s \in SessionIds |-> "unused"]
    /\ initPc = [s \in SessionIds |-> "none"]
    /\ reply = NoReply

NextDecode ==
    \/ DecodeMetarTool /\ UNCHANGED <<classifyVars, normalizeVars, mapperVars, textVars,
                                      serviceVars, fetchVars, toolVars, pirepVars, looseVars,
                                      valueVars, sessionVars>>

SpecDecode == InitDecode /\ [][NextDecode]_vars

\* a request about to be issued
InitFetch ==
    /\ request \in Requests
    /\ fetchPc = "start"
    /\ timer = "unset"
    /\ aborted = FALSE
    /\ elapsed = 0
    /\ caught = NoError
    /\ fetchOut = Requesting
    /\ fcArgs = IdleArgs
    /\ fcCategory = "none"
    /\ fcTool = NoResult
    /\ visRaw = Undef
    /\ visOut = NotRun
    /\ data = IdleData
    /\ metar = NoMetar
    /\ ceilingUsed = Undef
    /\ vfrCheck = NoCheck
    /\ text = <<>>
    /\ segOut = NoSeg
    /\ reOut = NoReseg
    /\ call = IdleCall
    /\ response = IdleResponse
    /\ outcome = Pending
    /\ handled = "none"
    /\ raw = <<>>
    /\ decodeOut = NotDecoded
    /\ tool = [name |-> "none", given |-> "nothing", includeMetar |-> FALSE, includeTaf |-> FALSE, includePireps |-> FALSE]
    /\ toolPc = "idle"
    /\ calls = [op \in ServiceOps |-> NotCalled]
    /\ awaited = {}
    /\ upstreamLog = <<>>
    /\ toolResult = NoToolResult
    /\ toolCaught = NoError
    /\ options = [minLat |-> Undef, maxLat |-> Undef, minLon |-> Undef, maxLon |-> Undef, hoursBack |-> Undef]
    /\ query = NoQuery
    /\ item = [kind |-> "none", first |-> Undef, second |-> Undef]
    /\ mapped = NotMapped
    /\ arg = [fn |-> "none", value |-> Undef]
    /\ returned = NotReturned
    /\ transports = {}
    /\ transportState = [s \in SessionIds |-> "unused"]
    /\ initPc = [s \in SessionIds |-> "none"]
    /\ reply = NoReply

NextFetch ==
    \/ IssueRequest /\ UNCHANGED <<classifyVars, normalizeVars, mapperVars, textVars, serviceVars,
                                   decodeVars, toolVars, pirepVars, looseVars, valueVars,
                                   sessionVars>>
    \/ FetchResolves /\ UNCHANGED <<classifyVars, normalizeVars, mapperVars, textVars, serviceVars,
                                    decodeVars, toolVars, pirepVars, looseVars, valueVars,
                                    sessionVars>>
    \/ FetchRejects /\ UNCHANGED <<classifyVars, normalizeVars, mapperVars, textVars, serviceVars,
                                   decodeVars, toolVars, pirepVars, looseVars, valueVars,
                                   sessionVars>>
    \/ TimerFires /\ UNCHANGED <<classifyVars, normalizeVars, mapperVars, textVars, serviceVars,
                                 decodeVars, toolVars, pirepVars, looseVars, valueVars,
                                 sessionVars>>
    \/ AbortRejects /\ UNCHANGED <<classifyVars, normalizeVars, mapperVars, textVars, serviceVars,
                                   decodeVars, toolVars, pirepVars, looseVars, valueVars,
                                   sessionVars>>
    \/ BodyResolves /\ UNCHANGED <<classifyVars, normalizeVars, mapperVars, textVars, serviceVars,
                                   decodeVars, toolVars, pirepVars, looseVars, valueVars,
                                   sessionVars>>
    \/ BodyRejects /\ UNCHANGED <<classifyVars, normalizeVars, mapperVars, textVars, serviceVars,
                                  decodeVars, toolVars, pirepVars, looseVars, valueVars,
                                  sessionVars>>
    \/ Tick /\ UNCHANGED <<classifyVars, normalizeVars, mapperVars, textVars, serviceVars,
                           decodeVars, toolVars, pirepVars, looseVars, valueVars, sessionVars>>

SpecFetch == InitFetch /\ [][NextFetch]_vars

\* a tool call about to be handled
InitTools ==
    /\ tool \in ToolCalls
    /\ toolPc = "start"
    /\ calls = [op \in ServiceOps |-> NotCalled]
    /\ awaited = {}
    /\ upstreamLog = <<>>
    /\ toolResult = NoToolResult
    /\ toolCaught = NoError
    /\ fcArgs = IdleArgs
    /\ fcCategory = "none"
    /\ fcTool = NoResult
    /\ visRaw = Undef
    /\ visOut = NotRun
    /\ data = IdleData
    /\ metar = NoMetar
    /\ ceilingUsed = Undef
    /\ vfrCheck = NoCheck
    /\ text = <<>>
    /\ segOut = NoSeg
    /\ reOut = NoReseg
    /\ call = IdleCall
    /\ response = IdleResponse
    /\ outcome = Pending
    /\ handled = "none"
    /\ raw = <<>>
    /\ decodeOut = NotDecoded
    /\ request = "none"
    /\ fetchPc = "idle"
    /\ timer = "unset"
    /\ aborted = FALSE
    /\ elapsed = 0
    /\ caught = NoError
    /\ fetchOut = Requesting
    /\ options = [minLat |-> Undef, maxLat |-> Undef, minLon |-> Undef, maxLon |-> Undef, hoursBack |-> Undef]
    /\ query = NoQuery
    /\ item = [kind |-> "none", first |-> Undef, second |-> Undef]
    /\ mapped = NotMapped
    /\ arg = [fn |-> "none", value |-> Undef]
    /\ returned = NotReturned
    /\ transports = {}
    /\ transportState = [s \in SessionIds |-> "unused"]
    /\ initPc = [s \in SessionIds |-> "none"]
    /\ reply = NoReply

NextTools ==
    \/ OneCallTool /\ UNCHANGED <<classifyVars, normalizeVars, mapperVars, textVars, serviceVars,
                                  decodeVars, fetchVars, pirepVars, looseVars, valueVars,
                                  sessionVars>>
    \/ DetermineCategoryTool /\ UNCHANGED <<classifyVars, normalizeVars, mapperVars, textVars,
                                            serviceVars, decodeVars, fetchVars, pirepVars,
                                            looseVars, valueVars, sessionVars>>
    \/ RouteTool /\ UNCHANGED <<classifyVars, normalizeVars, mapperVars, textVars, serviceVars,
                                decodeVars, fetchVars, pirepVars, looseVars, valueVars,
                                sessionVars>>
    \/ RadiusTool /\ UNCHANGED <<classifyVars, normalizeVars, mapperVars, textVars, serviceVars,
                                 decodeVars, fetchVars, pirepVars, looseVars, valueVars,
                                 sessionVars>>
    \/ Settle /\ UNCHANGED <<classifyVars, normalizeVars, mapperVars, textVars, serviceVars,
                             decodeVars, fetchVars, pirepVars, looseVars, valueVars, sessionVars>>
    \/ RadiusFetch /\ UNCHANGED <<classifyVars, normalizeVars, mapperVars, textVars, serviceVars,
                                  decodeVars, fetchVars, pirepVars, looseVars, valueVars,
                                  sessionVars>>
    \/ ToolCatches /\ UNCHANGED <<classifyVars, normalizeVars, mapperVars, textVars, serviceVars,
                                  decodeVars, fetchVars, pirepVars, looseVars, valueVars,
                                  sessionVars>>
    \/ ToolReturns /\ UNCHANGED <<classifyVars, normalizeVars, mapperVars, textVars, serviceVars,
                                  decodeVars, fetchVars, pirepVars, looseVars, valueVars,
                                  sessionVars>>

SpecTools == InitTools /\ [][NextTools]_vars

\* the options of a getPireps call whose request is not built yet
InitPireps ==
    /\ options \in PirepOptions
    /\ query = NoQuery
    /\ fcArgs = IdleArgs
    /\ fcCategory = "none"
    /\ fcTool = NoResult
    /\ visRaw = Undef
    /\ visOut = NotRun
    /\ data = IdleData
    /\ metar = NoMetar
    /\ ceilingUsed = Undef
    /\ vfrCheck = NoCheck
    /\ text = <<>>
    /\ segOut = NoSeg
    /\ reOut = NoReseg
    /\ call = IdleCall
    /\ response = IdleResponse
    /\ outcome = Pending
    /\ handled = "none"
    /\ raw = <<>>
    /\ decodeOut = NotDecoded
    /\ request = "none"
    /\ fetchPc = "idle"
    /\ timer = "unset"
    /\ aborted = FALSE
    /\ elapsed = 0
    /\ caught = NoError
    /\ fetchOut = Requesting
    /\ tool = [name |-> "none", given |-> "nothing", includeMetar |-> FALSE, includeTaf |-> FALSE, includePireps |-> FALSE]
    /\ toolPc = "idle"
    /\ calls = [op \in ServiceOps |-> NotCalled]
    /\ awaited = {}
    /\ upstreamLog = <<>>
    /\ toolResult = NoToolResult
    /\ toolCaught = NoError
    /\ item = [kind |-> "none", first |-> Undef, second |-> Undef]
    /\ mapped = NotMapped
    /\ arg = [fn |-> "none", value |-> Undef]
    /\ returned = NotReturned
    /\ transports = {}
    /\ transportState = [s \in SessionIds |-> "unused"]
    /\ initPc = [s \in SessionIds |-> "none"]
    /\ reply = NoReply

NextPireps ==
    \/ PirepRequest /\ UNCHANGED <<classifyVars, normalizeVars, mapperVars, textVars, serviceVars,
                                   decodeVars, fetchVars, toolVars, looseVars, valueVars,
                                   sessionVars>>

SpecPireps == InitPireps /\ [][NextPireps]_vars

\* a record not yet mapped
InitRecords ==
    /\ item \in Items
    /\ mapped = NotMapped
    /\ fcArgs = IdleArgs
    /\ fcCategory = "none"
    /\ fcTool = NoResult
    /\ visRaw = Undef
    /\ visOut = NotRun
    /\ data = IdleData
    /\ metar = NoMetar
    /\ ceilingUsed = Undef
    /\ vfrCheck = NoCheck
    /\ text = <<>>
    /\ segOut = NoSeg
    /\ reOut = NoReseg
    /\ call = IdleCall
    /\ response = IdleResponse
    /\ outcome = Pending
    /\ handled = "none"
    /\ raw = <<>>
    /\ decodeOut = NotDecoded
    /\ request = "none"
    /\ fetchPc = "idle"
    /\ timer = "unset"
    /\ aborted = FALSE
    /\ elapsed = 0
    /\ caught = NoError
    /\ fetchOut = Requesting
    /\ tool = [name |-> "none", given |-> "nothing", includeMetar |-> FALSE, includeTaf |-> FALSE, includePireps |-> FALSE]
    /\ toolPc = "idle"
    /\ calls = [op \in ServiceOps |-> NotCalled]
    /\ awaited = {}
    /\ upstreamLog = <<>>
    /\ toolResult = NoToolResult
    /\ toolCaught = NoError
    /\ options = [minLat |-> Undef, maxLat |-> Undef, minLon |-> Undef, maxLon |-> Undef, hoursBack |-> Undef]
    /\ query = NoQuery
    /\ arg = [fn |-> "none", value |-> Undef]
    /\ returned = NotReturned
    /\ transports = {}
    /\ transportState = [s \in SessionIds |-> "unused"]
    /\ initPc = [s \in SessionIds |-> "none"]
    /\ reply = NoReply

NextRecords ==
    \/ MapRecord /\ UNCHANGED <<classifyVars, normalizeVars, mapperVars, textVars, serviceVars,
                                decodeVars, fetchVars, toolVars, pirepVars, valueVars, sessionVars>>

SpecRecords == InitRecords /\ [][NextRecords]_vars

\* a normalizer and the argument it has not been applied to yet
InitValues ==
    /\ arg \in Args
    /\ returned = NotReturned
    /\ fcArgs = IdleArgs
    /\ fcCategory = "none"
    /\ fcTool = NoResult
    /\ visRaw = Undef
    /\ visOut = NotRun
    /\ data = IdleData
    /\ metar = NoMetar
    /\ ceilingUsed = Undef
    /\ vfrCheck = NoCheck
    /\ text = <<>>
    /\ segOut = NoSeg
    /\ reOut = NoReseg
    /\ call = IdleCall
    /\ response = IdleResponse
    /\ outcome = Pending
    /\ handled = "none"
    /\ raw = <<>>
    /\ decodeOut = NotDecoded
    /\ request = "none"
    /\ fetchPc = "idle"
    /\ timer = "unset"
    /\ aborted = FALSE
    /\ elapsed = 0
    /\ caught = NoError
    /\ fetchOut = Requesting
    /\ tool = [name |-> "none", given |-> "nothing", includeMetar |-> FALSE, includeTaf |-> FALSE, includePireps |-> FALSE]
    /\ toolPc = "idle"
    /\ calls = [op \in ServiceOps |-> NotCalled]
    /\ awaited = {}
    /\ upstreamLog = <<>>
    /\ toolResult = NoToolResult
    /\ toolCaught = NoError
    /\ options = [minLat |-> Undef, maxLat |-> Undef, minLon |-> Undef, maxLon |-> Undef, hoursBack |-> Undef]
    /\ query = NoQuery
    /\ item = [kind |-> "none", first |-> Undef, second |-> Undef]
    /\ mapped = NotMapped
    /\ transports = {}
    /\ transportState = [s \in SessionIds |-> "unused"]
    /\ initPc = [s \in SessionIds |-> "none"]
    /\ reply = NoReply

NextValues ==
    \/ ParseTurbulenceIntensity /\ UNCHANGED <<classifyVars, normalizeVars, mapperVars, textVars,
                                               serviceVars, decodeVars, fetchVars, toolVars,
                                               pirepVars, looseVars, sessionVars>>
    \/ ParseIcingIntensity /\ UNCHANGED <<classifyVars, normalizeVars, mapperVars, textVars,
                                          serviceVars, decodeVars, fetchVars, toolVars, pirepVars,
                                          looseVars, sessionVars>>
    \/ ParseHazardType /\ UNCHANGED <<classifyVars, normalizeVars, mapperVars, textVars,
                                      serviceVars, decodeVars, fetchVars, toolVars, pirepVars,
                                      looseVars, sessionVars>>
    \/ ParseClouds /\ UNCHANGED <<classifyVars, normalizeVars, mapperVars, textVars, serviceVars,
                                  decodeVars, fetchVars, toolVars, pirepVars, looseVars,
                                  sessionVars>>
    \/ CoerceField /\ UNCHANGED <<classifyVars, normalizeVars, mapperVars, textVars, serviceVars,
                                  decodeVars, fetchVars, toolVars, pirepVars, looseVars,
                                  sessionVars>>

SpecValues == InitValues /\ [][NextValues]_vars

\* the server after start-up: no session
InitSessions ==
    /\ transports = {}
    /\ transportState = [s \in SessionIds |-> "unused"]
    /\ initPc = [s \in SessionIds |-> "none"]
    /\ reply = NoReply
    /\ fcArgs = IdleArgs
    /\ fcCategory = "none"
    /\ fcTool = NoResult
    /\ visRaw = Undef
    /\ visOut = NotRun
    /\ data = IdleData
    /\ metar = NoMetar
    /\ ceilingUsed = Undef
    /\ vfrCheck = NoCheck
    /\ text = <<>>
    /\ segOut = NoSeg
    /\ reOut = NoReseg
    /\ call = IdleCall
    /\ response = IdleResponse
    /\ outcome = Pending
    /\ handled = "none"
    /\ raw = <<>>
    /\ decodeOut = NotDecoded
    /\ request = "none"
    /\ fetchPc = "idle"
    /\ timer = "unset"
    /\ aborted = FALSE
    /\ elapsed = 0
    /\ caught = NoError
    /\ fetchOut = Requesting
    /\ tool = [name |-> "none", given |-> "nothing", includeMetar |-> FALSE, includeTaf |-> FALSE, includePireps |-> FALSE]
    /\ toolPc = "idle"
    /\ calls = [op \in ServiceOps |-> NotCalled]
    /\ awaited = {}
    /\ upstreamLog = <<>>
    /\ toolResult = NoToolResult
    /\ toolCaught = NoError
    /\ options = [minLat |-> Undef, maxLat |-> Undef, minLon |-> Undef, maxLon |-> Undef, hoursBack |-> Undef]
    /\ query = NoQuery
    /\ item = [kind |-> "none", first |-> Undef, second |-> Undef]
    /\ mapped = NotMapped
    /\ arg = [fn |-> "none", value |-> Undef]
    /\ returned = NotReturned

NextSessions ==
    \/ PostMcp /\ UNCHANGED <<classifyVars, normalizeVars, mapperVars, textVars, serviceVars,
                              decodeVars, fetchVars, toolVars, pirepVars, looseVars, valueVars>>
    \/ ConnectResolves /\ UNCHANGED <<classifyVars, normalizeVars, mapperVars, textVars,
                                      serviceVars, decodeVars, fetchVars, toolVars, pirepVars,
                                      looseVars, valueVars>>
    \/ ConnectRejects /\ UNCHANGED <<classifyVars, normalizeVars, mapperVars, textVars,
                                     serviceVars, decodeVars, fetchVars, toolVars, pirepVars,
                                     looseVars, valueVars>>
    \/ InitializeResolves /\ UNCHANGED <<classifyVars, normalizeVars, mapperVars, textVars,
                                         serviceVars, decodeVars, fetchVars, toolVars, pirepVars,
                                         looseVars, valueVars>>
    \/ InitializeRejects /\ UNCHANGED <<classifyVars, normalizeVars, mapperVars, textVars,
                                        serviceVars, decodeVars, fetchVars, toolVars, pirepVars,
                                        looseVars, valueVars>>
    \/ GetMcp /\ UNCHANGED <<classifyVars, normalizeVars, mapperVars, textVars, serviceVars,
                             decodeVars, fetchVars, toolVars, pirepVars, looseVars, valueVars>>
    \/ DeleteMcp /\ UNCHANGED <<classifyVars, normalizeVars, mapperVars, textVars, serviceVars,
                                decodeVars, fetchVars, toolVars, pirepVars, looseVars, valueVars>>
    \/ TransportCloses /\ UNCHANGED <<classifyVars, normalizeVars, mapperVars, textVars,
                                      serviceVars, decodeVars, fetchVars, toolVars, pirepVars,
                                      looseVars, valueVars>>
    \/ Health /\ UNCHANGED <<classifyVars, normalizeVars, mapperVars, textVars, serviceVars,
                             decodeVars, fetchVars, toolVars, pirepVars, looseVars, valueVars>>

SpecSessions == InitSessions /\ [][NextSessions]_vars

-----------------------------------------------------------------------------
(* Claims about the classifier (SpecClassify) *)

\* the ceiling bucket and the visibility bucket of the specification
CeilingBucket(c) ==
    IF c = Undef THEN "VFR"
    ELSE IF c.n < 500 * Scale THEN "LIFR"
    ELSE IF c.n < 1000 * Scale THEN "IFR"
    ELSE IF c.n < 3000 * Scale THEN "MVFR"
    ELSE "VFR"

VisibilityBucket(v) ==
    IF v = Undef THEN "VFR"
    ELSE IF v.n < 1 * Scale THEN "LIFR"
    ELSE IF v.n < 3 * Scale THEN "IFR"
    ELSE IF v.n < 5 * Scale THEN "MVFR"
    ELSE "VFR"

Worse(a, b) == IF Rank(a) >= Rank(b) THEN a ELSE b

\* C1: for every ceiling and visibility, each a non-negative number or
\* undefined, the category returned is the worse of the ceiling bucket and the
\* visibility bucket, an undefined input counting as the VFR bucket.
C1_WorseBucketWins ==
    fcCategory # "none" =>
        fcCategory = Worse(CeilingBucket(fcArgs.ceiling), VisibilityBucket(fcArgs.visibility))

\* C1 witness: a classified pair whose two buckets differ, the visibility's
\* being the worse one.
C1_Witness ==
    /\ fcCategory = "IFR"
    /\ CeilingBucket(fcArgs.ceiling) = "MVFR"
    /\ VisibilityBucket(fcArgs.visibility) = "IFR"

\* C3: a ceiling or visibility exactly at a threshold falls in the better
\* category: classify(500,10)=IFR, (499,10)=LIFR, (1000,10)=MVFR, (3000,10)=VFR,
\* (3000,5)=VFR, (undefined,5)=VFR, (undefined,3)=MVFR, (undefined,1)=IFR, and
\* every visibility strictly below 1 gives LIFR.
C3_BoundaryIsBetter ==
    fcCategory # "none" =>
        LET c == fcArgs.ceiling
            v == fcArgs.visibility
        IN /\ (c = Whole(500) /\ v = Whole(10)) => fcCategory = "IFR"
           /\ (c = Whole(499) /\ v = Whole(10)) => fcCategory = "LIFR"
           /\ (c = Whole(1000) /\ v = Whole(10)) => fcCategory = "MVFR"
           /\ (c = Whole(3000) /\ v = Whole(10)) => fcCategory = "VFR"
           /\ (c = Whole(3000) /\ v = Whole(5)) => fcCategory = "VFR"
           /\ (c = Undef /\ v = Whole(5)) => fcCategory = "VFR"
           /\ (c = Undef /\ v = Whole(3)) => fcCategory = "MVFR"
           /\ (c = Undef /\ v = Whole(1)) => fcCategory = "IFR"
           /\ (v # Undef /\ v.n < Scale) => fcCategory = "LIFR"

\* C3 witness: the ceiling exactly at 500 ft with visibility 10 was classified.
C3_Witness ==
    /\ fcArgs = [ceiling |-> Whole(500), visibility |-> Whole(10)]
    /\ fcCategory = "IFR"

\* C4, for the classifier of the determine-flight-category tool: no defined
\* ceiling c' <= c and visibility v' <= v is classified better than (c, v).
C4_ToolMonotonic ==
    (fcCategory # "none" /\ fcArgs.ceiling # Undef /\ fcArgs.visibility # Undef) =>
        \A c \in CeilingArgs \ {Undef}, v \in VisibilityArgs \ {Undef} :
            (c.n <= fcArgs.ceiling.n /\ v.n <= fcArgs.visibility.n) =>
                Rank(determineFlightCategory(c, v)) >= Rank(fcCategory)

\* C28: the rule inlined in the observation mapper and the rule of the
\* determine-flight-category tool give the same category for every ceiling
\* and every visibility, each undefined or a number from 0 upwards.
C28_RulesAgree ==
    fcCategory # "none" =>
        fcCategory = serviceCategoryRule(fcArgs.ceiling, fcArgs.visibility)

-----------------------------------------------------------------------------
(* Claims about the normalizer (SpecNormalize) *)

\* a numeric string: digits with at most one decimal point
NumericString(s) ==
    /\ \E i \in 1..Len(s) : s[i] \in Digits
    /\ \A i \in 1..Len(s) : s[i] \in Digits \cup {"."}
    /\ Cardinality({i \in 1..Len(s) : s[i] = "."}) <= 1

\* what the specification makes of a raw visibility string
NormalizedVisibility(s) ==
    IF s # <<>> /\ s[Len(s)] = "+" /\ NumericString(SubSeq(s, 1, Len(s) - 1))
    THEN parseFloatStr(SubSeq(s, 1, Len(s) - 1))
    ELSE IF StartsWith(s, <<"P">>) /\ EndsWith(s, <<"S", "M">>) /\ Len(s) >= 3
            /\ NumericString(SubSeq(s, 2, Len(s) - 2))
    THEN parseFloatStr(SubSeq(s, 2, Len(s) - 2))
    ELSE IF NumericString(s) THEN parseFloatStr(s)
    ELSE Undef

\* C6: normalizeVisibility returns a number or absent for every input: "n+"
\* gives n, "PnSM" gives n, any other numeric string its number, and every
\* empty or non-numeric input absent, never a not-a-number value.
C6_NumberOrAbsent ==
    visOut # NotRun =>
        /\ visOut.t \in {"num", "undef"}
        /\ visRaw.t = "str" => visOut = NormalizedVisibility(visRaw.s)

-----------------------------------------------------------------------------
(* Claims about the observation mapper (SpecMapper) *)

\* the lowest altitude among the BKN and OVC layers of a mapped observation,
\* undefined when no such layer carries one
OutputCeiling(m) ==
    LET alts == {m.clouds[i].altitude.n : i \in
                    {j \in 1..Len(m.clouds) : /\ m.clouds[j].type \in {"BKN", "OVC"}
                                              /\ m.clouds[j].altitude.t = "num"}}
    IN IF alts = {} THEN Undef ELSE Num(CHOOSE a \in alts : \A b \in alts : a <= b)

\* C2: the flightCategory of every mapped observation is what the classifier
\* gives for the observation's own output: the lowest BKN/OVC altitude of its
\* cloud layers and its visibility.
C2_CategoryMatchesOutput ==
    metar # NoMetar =>
        metar.flightCategory = determineFlightCategory(OutputCeiling(metar), metar.visibility)

\* C4, for the rule the mapper classifies with: replacing the record's raw
\* visibility by one that normalizes to a smaller defined number never gives a
\* better category.
C4_MapperMonotonic ==
    (metar # NoMetar /\ metar.visibility.t = "num") =>
        \A r \in RecordVisibs :
            LET worse == parseMetarResponse([data EXCEPT !.visib = r])
            IN (worse.visibility.t = "num" /\ worse.visibility.n <= metar.visibility.n) =>
                  Rank(worse.flightCategory) >= Rank(metar.flightCategory)

\* C5: the ceiling used for classification, and the one used by the VFR
\* minimums check, is the altitude of the lowest BKN or OVC layer among the
\* supplied layers, and undefined when there is none.
C5_CeilingIsLowestBknOvc ==
    /\ metar # NoMetar => ceilingUsed = OutputCeiling(metar)
    /\ vfrCheck # NoCheck => vfrCheck.ceiling = OutputCeiling(metar)

\* a value is absent or at least the minimum
AtLeast(v, minimum) == v = Undef \/ (v.t = "num" /\ v.n >= minimum.n)

\* C30: check-vfr-minimums reports that an observation meets the minimums
\* exactly when its ceiling, the altitude of its lowest BKN or OVC layer, is
\* undefined or at least minCeiling and its visibility is undefined or at
\* least minVisibility, and lists one issue per minimum that is not met; a
\* ceiling of 0 ft and a visibility of 0 SM are below the minimums.
C30_MeetsIffBothMinimums ==
    vfrCheck # NoCheck =>
        LET ceilingOk    == AtLeast(OutputCeiling(metar), vfrCheck.minCeiling)
            visibilityOk == AtLeast(metar.visibility, vfrCheck.minVisibility)
        IN /\ vfrCheck.meets <=> (ceilingOk /\ visibilityOk)
           /\ vfrCheck.issues = (IF ceilingOk THEN <<>> ELSE <<"ceiling">>)
                                 \o (IF visibilityOk THEN <<>> ELSE <<"visibility">>)

-----------------------------------------------------------------------------
(* Claims about the raw-text segmenters (SpecText) *)

\* the first white-space-delimited token of a trimmed line
FirstToken(t) == SubSeq(t, 1, Len(t) - Len(Drop(t, PrefixLen(t, {t[i] : i \in 1..Len(t)} \ WhiteSpace))))

\* one record per non-blank line whose first token is a station identifier
ExpectedMetarRecord(line) ==
    IF IsStation(FirstToken(Trim(line)))
    THEN <<[raw |-> Trim(line), station |-> FirstToken(Trim(line))]>>
    ELSE <<>>

RECURSIVE ExpectedMetarRecords(_)
ExpectedMetarRecords(lines) ==
    IF lines = <<>> THEN <<>>
    ELSE ExpectedMetarRecord(Head(lines)) \o ExpectedMetarRecords(Tail(lines))

\* C9: single-line segmentation yields, in input order, exactly one record per
\* non-blank line whose first white-space-delimited token is a 4-letter
\* upper-case identifier, with that token as station and the trimmed line as
\* raw; every other line is dropped.
C9_OneRecordPerStationLine ==
    segOut.op = "metar" =>
        segOut.records = ExpectedMetarRecords(nonBlankLines(text))

\* C10: segmentation is idempotent on its own output: the segmenter that
\* produced a record makes of that record's raw text exactly that one record.
C10_Idempotent ==
    reOut # NoReseg => reOut.records = <<segOut.records[reOut.of]>>

\* C10 witness: a forecast record joined from a start line and a continuation
\* line was segmented again.
C10_Witness ==
    /\ reOut # NoReseg
    /\ segOut.op = "taf"
    /\ Len(segOut.records) = 1
    /\ Len(nonBlankLines(text)) = 2
    /\ Len(segOut.records[1].raw) > Len(Trim(nonBlankLines(text)[1]))

\* the 4-letter identifier of a start line: after the optional TAF prefix
StartStation(line) ==
    LET p == TafPrefixLen(line)
    IN IF p > 0 /\ MatchesStationTime(Drop(line, p))
       THEN SubSeq(line, p + 1, p + 4)
       ELSE SubSeq(line, 1, 4)

\* the first start line after line i, Len(lines) + 1 when there is none
NextStart(lines, i) ==
    LET later == {j \in (i + 1)..Len(lines) : startsNewTaf(lines[j])}
    IN IF later = {} THEN Len(lines) + 1
       ELSE CHOOSE j \in later : \A k \in later : j <= k

\* the record of the start line i: the line and what follows it up to the
\* next start, blank lines left out, trimmed and joined with single spaces
ExpectedTafRecord(lines, i) ==
    LET own     == SubSeq(lines, i, NextStart(lines, i) - 1)
        trimmed == [k \in 1..Len(own) |-> Trim(own[k])]
    IN [raw     |-> Join(SelectSeq(trimmed, LAMBDA t : t # <<>>)),
        station |-> StartStation(lines[i])]

RECURSIVE ExpectedTafRecords(_, _)
ExpectedTafRecords(lines, i) ==
    IF i > Len(lines) THEN <<>>
    ELSE (IF startsNewTaf(lines[i]) THEN <<ExpectedTafRecord(lines, i)>> ELSE <<>>)
         \o ExpectedTafRecords(lines, i + 1)

\* C21: multi-line segmentation of forecasts yields, in input order, exactly
\* one record per line recognized as a record start; the record's raw is the
\* start line followed by the non-start, non-blank lines up to the next start
\* or the end of the input, each trimmed, joined with single spaces; its
\* station is the identifier of the start line; the lines before the first
\* start belong to no record.
C21_OneRecordPerStartLine ==
    segOut.op = "taf" =>
        segOut.records = ExpectedTafRecords(Split(text, "\n"), 1)

\* C21 witness: a text with a line before the first start, two start lines
\* and a continuation line of the first was segmented into two records.
C21_Witness ==
    /\ segOut.op = "taf"
    /\ Len(segOut.records) = 2
    /\ ~startsNewTaf(Split(text, "\n")[1])
    /\ Trim(Split(text, "\n")[1]) # <<>>
    /\ Len(segOut.records[1].raw) > Len(segOut.records[2].raw)
    /\ segOut.records[1].station = segOut.records[2].station

-----------------------------------------------------------------------------
(* Claims about the service calls (SpecService) *)

\* the upstream answered 2xx with a JSON document
AnsweredJson == response.net = "ok" /\ response.httpOk /\ response.body.k # "plain"

\* C7: every call that maps a structured response fails with INVALID_RESPONSE,
\* and returns no records, when the payload is not a sequence: the station-list
\* queries always, the bounds queries when the response is declared JSON.
C7_NotASequenceIsInvalid ==
    ( /\ outcome # Pending
      /\ AnsweredJson
      /\ response.body.k # "array"
      /\ \/ call.op \in ListOps
         \/ call.op \in BoundsOps /\ declaredJson(response) )
    => outcome = Failed("INVALID_RESPONSE")

\* C8: getStationInfo fails with STATION_NOT_FOUND whenever no record of the
\* result sequence is the requested station's, and returns a StationInfo, the
\* requested station's, only when one is.
C8_NoMatchIsNotFound ==
    (outcome # Pending /\ call.op = "getStationInfo" /\ AnsweredJson
        /\ response.body.k = "array")
    => IF \E i \in 1..Len(response.body.items) : response.body.items[i] = call.station
       THEN outcome.kind = "ok" /\ outcome.records[1].icao = call.station
       ELSE outcome = Failed("STATION_NOT_FOUND")

-----------------------------------------------------------------------------
(* Claims about the METAR decoder (SpecDecode) *)

\* the place of each kind of line in the fixed order of the output
LineRank(label) ==
    CASE label = "Type"             -> 1
      [] label = "Station"          -> 2
      [] label = "Observation Time" -> 3
      [] label = "Wind"             -> 4
      [] label = "Visibility"       -> 5
      [] label = "Weather"          -> 6
      [] label = "Clouds"           -> 7
      [] label = "Temperature"      -> 8
      [] label \in {"Altimeter", "QNH"} -> 9
      [] label = "Remarks"          -> 10

Labels(lines) == {lines[i].label : i \in 1..Len(lines)}

\* the report of the specification's example and the lines it decodes to
ExampleReport == <<"M", "E", "T", "A", "R", " ", "K", "D", "E", "N", " ", "1", "2", "1", "6", "5", "2", "Z", " ", "2", "7", "0", "1", "5", "G", "2", "5", "K", "T", " ", "1", "0", "S", "M", " ", "F", "E", "W", "0", "5", "0", " ", "2", "2", "/", "1", "0", " ", "A", "2", "9", "9", "2", " ", "R", "M", "K", " ", "A", "O", "2">>
ExampleLines ==
    << Line("Type", <<"Routine observation">>),
       Line("Station", <<"K", "D", "E", "N">>),
       Line("Observation Time", <<"Day ", "1", "2", ", ", "1", "6", ":", "5", "2", " UTC">>),
       Line("Wind", <<"2", "7", "0", "°", " at ", "1", "5", " knots",
                      " gusting to ", "2", "5", " knots">>),
       Line("Visibility", <<"1", "0", "S", "M">>),
       Line("Clouds", <<"Few", " at ", "5", "0", "0", "0", " ft">>),
       Line("Temperature", <<"2", "2", "°C, Dewpoint: ", "1", "0", "°C">>),
       Line("Altimeter", <<"2", "9", ".", "9", "2", " inHg">>),
       Line("Remarks", <<"A", "O", "2">>) >>

\* the ordered reports in which no group after the time is left out
CompleteReports ==
    {OrderedReport(g[1], g[2], g[3], g[4], g[5], g[6], g[7], g[8]) :
        g \in TypeTokens \X WindTokens \X (VisibilityTokens \ {<<>>}) \X WeatherTokens
              \X (CloudTokens \ {<<>>}) \X (TemperatureTokens \ {<<>>})
              \X (AltimeterTokens \ {<<>>}) \X (RemarkTokens \ {<<>>})}

C12_ErrorIffEmpty ==
    decodeOut # NotDecoded => (decodeOut.isError <=> raw = <<>>)

\* the groups of a report that one of the given tokens stands for
HasGroup(rawMetar, tokens) ==
    \E i \in 1..Len(SplitWS(Trim(rawMetar))) : SplitWS(Trim(rawMetar))[i] \in tokens \ {<<>>}

\* C19: a stage that does not recognize the current token consumes nothing, so
\* in a report with its groups in order the cloud, temperature and altimeter
\* groups are decoded whether or not a visibility group precedes them.
C19_LaterGroupsStillDecoded ==
    decodeOut # NotDecoded /\ raw \in OrderedReports =>
        /\ HasGroup(raw, CloudTokens) => "Clouds" \in Labels(decodeOut.lines)
        /\ HasGroup(raw, TemperatureTokens) => "Temperature" \in Labels(decodeOut.lines)
        /\ HasGroup(raw, AltimeterTokens) =>
              Labels(decodeOut.lines) \cap {"Altimeter", "QNH"} # {}

\* the report without its wind group, the third token
WithoutWind(rawMetar) ==
    LET parts == SplitWS(Trim(rawMetar))
    IN Join(SubSeq(parts, 1, 2) \o SubSeq(parts, 4, Len(parts)))

\* the wind line of a variable wind of 5 knots, gusting to 15 when gusty
VariableWindLine(wind) ==
    Line("Wind", <<"Variable", " at ", "5", " knots">>
                 \o (IF GustOf(wind) # <<>> THEN <<" gusting to ", "1", "5", " knots">> ELSE <<>>))

\* C25: the wind stage recognizes a wind token with the direction VRB: it
\* writes the wind line with variable direction, the speed and the gust, and
\* consumes the token, so that the other lines are those of the report
\* without the wind group.
C25_VariableWindDecoded ==
    decodeOut # NotDecoded /\ raw \in VariableWindReports =>
        /\ \E i \in 1..Len(decodeOut.lines) :
              decodeOut.lines[i] = VariableWindLine(SplitWS(Trim(raw))[3])
        /\ SelectSeq(decodeOut.lines, LAMBDA l : l.label # "Wind")
              = decodeMetarTool(WithoutWind(raw)).lines

-----------------------------------------------------------------------------
(* Claims about the upstream request (SpecFetch) *)

\* C13: every failure of the upstream request ends the call with a structured
\* error: TIMEOUT with message 'Request timed out' when the timer aborted the
\* request, FETCH_ERROR with the original message otherwise; nothing escapes
\* unwrapped and the timer is cancelled whenever the call has ended.
C13_FailuresAreStructured ==
    fetchPc = "done" =>
        /\ timer = "cleared"
        /\ fetchOut.kind \in {"ok", "error"}
        /\ caught # NoError <=> fetchOut.kind = "error"
        /\ fetchOut.kind = "error" =>
              IF aborted
              THEN fetchOut.code = "TIMEOUT" /\ fetchOut.message = "Request timed out"
              ELSE fetchOut.code = "FETCH_ERROR" /\ fetchOut.message = caught.message

\* C13 witness: a request the timer aborted has ended.
C13_Witness ==
    /\ fetchPc = "done"
    /\ aborted
    /\ fetchOut.kind = "error"

\* C14: a request that has not finished, body included, REQUEST_TIMEOUT after
\* it was issued is aborted: no request is in flight longer than that.
C14_NoRequestOutlivesTimeout ==
    InFlight => elapsed * 1000 <= REQUEST_TIMEOUT

-----------------------------------------------------------------------------
(* Claims about the tool handlers (SpecTools) *)

\* the upstream requests in flight
RequestsInFlight == {op \in ServiceOps : calls[op] = Awaiting}

\* C15: the server puts a delay of one second between consecutive upstream
\* requests: two requests are never in flight together and never issued one
\* right after the other without a delay between them.
C15_DelayBetweenRequests ==
    /\ Cardinality(RequestsInFlight) <= 1
    /\ \A i \in 1..(Len(upstreamLog) - 1) :
          ~(upstreamLog[i].kind = "request" /\ upstreamLog[i + 1].kind = "request")

\* C16: a handler always completes by returning a result; the result carries
\* isError and a text beginning with "Error" exactly when a failure reached
\* the handler's catch block, which every failed awaited call and every error
\* the handler throws itself does.
C16_FailuresAreResults ==
    toolPc = "done" =>
        /\ toolResult # NoToolResult
        /\ toolResult.isError <=> toolCaught # NoError
        /\ toolResult.isError => toolResult.text[1] = "Error: "
        /\ ~toolResult.isError =>
              /\ toolResult.text[1] = "json"
              /\ \A op \in awaited : calls[op].kind = "ok"

\* C16 witness: one request of get-weather-by-radius failed while another was
\* still in flight, and the handler returned the error.
C16_Witness ==
    /\ toolPc = "done"
    /\ tool.name = "get-weather-by-radius"
    /\ toolResult.isError
    /\ toolCaught.name = "TIMEOUT"
    /\ RequestsInFlight # {}

-----------------------------------------------------------------------------
(* Claims about the pilot-report query (SpecPireps) *)

\* C17: getPireps sends the bounds, with exactly the supplied values, whenever
\* the caller supplied all four, zero included, and omits them only when one
\* of the four was not supplied.
C17_BoundsSentWhenSupplied ==
    query # NoQuery =>
        IF \A v \in {options.minLat, options.maxLat, options.minLon, options.maxLon} : v # Undef
        THEN query.bounds = <<options.minLat, options.maxLat, options.minLon, options.maxLon>>
        ELSE query.bounds = <<>>

-----------------------------------------------------------------------------
(* Claims about the mappers on malformed records (SpecRecords) *)

\* C18: mapping one record never raises, whichever optional fields are
\* missing, of an unexpected type or malformed: the mapper returns a record.
C18_MappersNeverRaise ==
    mapped # NotMapped => mapped.state = "returned"

-----------------------------------------------------------------------------
(* Claims about the two paths of the bounds queries (SpecService) *)

\* C20: a bounds query chooses between segmenting raw text and mapping a
\* structured payload from the declared content type alone: a response
\* declared JSON is never segmented as text, whatever its payload, and a
\* response not declared JSON is always segmented.
C20_PathFollowsContentType ==
    call.op \in BoundsOps /\ handled \notin {"none", "failed"} =>
        (handled = "segmented" <=> ~declaredJson(response))

-----------------------------------------------------------------------------
(* Claims about the value normalizers (SpecValues) *)

\* the intensities, least severe first
TurbulenceScale == <<"LIGHT", "MODERATE", "SEVERE", "EXTREME">>
IcingScale == <<"TRACE", "LIGHT", "MODERATE", "SEVERE">>

\* the token of an intensity: its name
IntensityToken(name) ==
    CASE name = "TRACE"    -> <<"T", "R", "A", "C", "E">>
      [] name = "LIGHT"    -> <<"L", "I", "G", "H", "T">>
      [] name = "MODERATE" -> <<"M", "O", "D", "E", "R", "A", "T", "E">>
      [] name = "SEVERE"   -> <<"S", "E", "V", "E", "R", "E">>
      [] name = "EXTREME"  -> <<"E", "X", "T", "R", "E", "M", "E">>

\* the positions on the scale of the intensities named in the string
Named(scale, s) ==
    {k \in 1..Len(scale) : Includes(toUpperCase(s), IntensityToken(scale[k]))}

\* the most severe intensity named in the string
WorstNamed(scale, s) ==
    scale[CHOOSE k \in Named(scale, s) : \A j \in Named(scale, s) : j <= k]

\* C22: for turbulence and for icing, the intensity returned for a string that
\* names recognized intensities is the most severe of them, whatever the case
\* of the letters: SEVERE for a turbulence string with SEVERE and LIGHT, LIGHT
\* for an icing string with LIGHT and TRACE.
C22_WorstIntensityWins ==
    /\ (returned.fn = "parseTurbulenceIntensity" /\ Named(TurbulenceScale, arg.value.s) # {}) =>
           returned.value = WorstNamed(TurbulenceScale, arg.value.s)
    /\ (returned.fn = "parseIcingIntensity" /\ Named(IcingScale, arg.value.s) # {}) =>
           returned.value = WorstNamed(IcingScale, arg.value.s)

\* the hazard types in the order of the table
HazardOrder ==
    <<"IFR", "MOUNTAIN_OBSCURATION", "TURBULENCE", "ICING",
      "LOW_LEVEL_WIND_SHEAR", "STRONG_SURFACE_WINDS">>

\* the token of a hazard type occurs in the upper-cased string
HazardNamed(type, upper) ==
    CASE type = "IFR"                  -> Includes(upper, <<"I", "F", "R">>)
      [] type = "MOUNTAIN_OBSCURATION" -> Includes(upper, <<"M", "O", "U", "N", "T", "A", "I", "N">>) \/ Includes(upper, <<"M", "T", "N">>)
      [] type = "TURBULENCE"           -> Includes(upper, <<"T", "U", "R", "B">>)
      [] type = "ICING"                -> Includes(upper, <<"I", "C", "E">>) \/ Includes(upper, <<"I", "C", "I", "N", "G">>)
      [] type = "LOW_LEVEL_WIND_SHEAR" -> Includes(upper, <<"W", "I", "N", "D">>) /\ Includes(upper, <<"S", "H", "E", "A", "R">>)
      [] type = "STRONG_SURFACE_WINDS" -> Includes(upper, <<"W", "I", "N", "D">>)

\* C23: the hazard type returned is the first one of the table's order whose
\* token occurs in the string, whatever the case of the letters, and IFR when
\* none occurs; wind with shear is LOW_LEVEL_WIND_SHEAR, and the result is
\* always one of the six types.
C23_FirstHazardInOrder ==
    returned.fn = "parseHazardType" =>
        LET upper == toUpperCase(arg.value.s)
            named == {k \in 1..6 : HazardNamed(HazardOrder[k], upper)}
        IN /\ returned.value \in {HazardOrder[k] : k \in 1..6}
           /\ named = {} => returned.value = "IFR"
           /\ named # {} =>
                 returned.value = HazardOrder[CHOOSE k \in named : \A j \in named : k <= j]
           /\ arg.value.s = <<"T", "u", "r", "b">> => returned.value = "TURBULENCE"

\* C23 witness: a string that names wind and shear, in lower and upper case,
\* was mapped to LOW_LEVEL_WIND_SHEAR.
C23_Witness ==
    /\ returned.fn = "parseHazardType"
    /\ arg.value.s = <<"W", "I", "N", "D", " ", "s", "h", "e", "a", "r">>
    /\ returned.value = "LOW_LEVEL_WIND_SHEAR"

\* the cover codes of a CloudLayer
CloudLayerTypes == {"FEW", "SCT", "BKN", "OVC", "CLR", "SKC"}

\* C24: parseClouds makes one layer per raw entry, in order; every layer's
\* cover is one of FEW, SCT, BKN, OVC, CLR, SKC (CLR for a missing or
\* unrecognized code) and its altitude is absent or a number (absent for a
\* base that is no number).
C24_LayersWellFormed ==
    returned.fn = "parseClouds" =>
        /\ Len(returned.value) = Len(arg.value)
        /\ \A i \in 1..Len(returned.value) :
              LET entry == arg.value[i]
                  code  == IF entry.cover # "" THEN entry.cover ELSE entry.skyCover
                  layer == returned.value[i]
              IN /\ layer.type \in CloudLayerTypes
                 /\ code \in CloudLayerTypes => layer.type = code
                 /\ code \notin CloudLayerTypes => layer.type = "CLR"
                 /\ layer.altitude.t \in {"undef", "num"}

\* the number a well-formed value of a numeric field stands for
NumberOf(v) == IF v.t = "str" THEN parseFloatStr(v.s) ELSE v

\* a well-formed value of the field: a number or a numeric string, whole for
\* the fields that hold whole numbers
WellFormed(name, v) ==
    /\ v.t = "num" \/ (v.t = "str" /\ NumericString(v.s))
    /\ name \in IntFields \cup GuardedIntFields => NumberOf(v).n % Scale = 0

\* C29: the mapped value of a numeric field is the number of its source
\* value whenever that is well-formed, zero included, and is absent only for
\* a source value that is missing or not numeric.
C29_CoercionKeepsNumbers ==
    returned.fn \in NumericFields =>
        /\ WellFormed(arg.fn, arg.value) => returned.value = NumberOf(arg.value)
        /\ returned.value = Undef => ~WellFormed(arg.fn, arg.value)

-----------------------------------------------------------------------------
(* Claims about the HTTP session table (SpecSessions) *)

\* a request without a known session id that is no initialize request on POST
\* is answered 400; a request with a known session id is handled by the
\* transport stored for it
AnswersFollowTable ==
    /\ (reply.route = "POST" /\ ~reply.known /\ ~reply.init) => reply.status = "400"
    /\ (reply.route \in {"GET", "DELETE"} /\ ~reply.known) => reply.status = "400"
    /\ (reply.route \in {"POST", "GET", "DELETE"} /\ reply.known /\ reply.status # "500") =>
           (reply.status = "transport" /\ reply.by = reply.header)

\* the table changes by one added entry, when the handler of an initialize
\* request starts a session, or by one removed entry, when its transport closes
TableStep ==
    \/ transports' = transports
    \/ \E s \in SessionIds \ transports :
          /\ transports' = transports \cup {s}
          /\ initPc[s] = "none" /\ initPc'[s] = "connect"
    \/ \E s \in transports :
          /\ transports' = transports \ {s}
          /\ transportState'[s] = "closed"

\* C26: the session table changes only by an entry added for an initialize
\* request on POST /mcp that carries no known session id and by an entry
\* removed when its transport closes; every other POST without a known
\* session id and every GET or DELETE with a missing or unknown session id is
\* answered 400; a request with a known session id is handled by the transport
\* stored for that id.
C26_TableChangesOnlyByInitAndClose == []AnswersFollowTable /\ [][TableStep]_vars

\* C27: every entry of the session table is a transport that is not closed
\* and, once the handler of its initialize request has ended, was connected
\* and initialized without failure: no entry remains for a session whose
\* initialization was answered 500, so /health counts no such session.
C27_EntriesAreLiveSessions ==
    \A s \in transports :
        /\ transportState[s] # "closed"
        /\ initPc[s] # "failed"
        /\ initPc[s] = "done" => transportState[s] = "connected"

=============================================================================
